---------------------------- MODULE Spec2Model ----------------------------
(***************************************************************************)
(* Appointment synchronization and reminder engine of the patient bot:     *)
(* the appointments table and its operations (sync_appointments/database,  *)
(* user_database), one reconciliation pass (sync_appointments/service),    *)
(* and the triggers of a pass (scheduler, admin sync command).             *)
(***************************************************************************)
EXTENDS Integers, Sequences, FiniteSets, TLC

(***************************************************************************)
(* Bounds of the model.                                                    *)
(***************************************************************************)
MaxClock == 1
MaxBookings == 1
MaxFeed == 2
MaxStoreOps == 3

\* the number of notifications of one appointment after which the model
\* lets no further pass lose its marking
MaxLost == 1

\* the number of batches that one Notifier instance sends
MaxBatches == 2

\* the number of fetches that one Fetcher instance makes
MaxFetches == 2

\* the number of rows of the directory that the matcher is run on
MaxDirectory == 2

\* the number of days that pass while rows age
MaxDay == 3

\* the number of feeds that one parser parses
MaxParses == 2

\* the number of phone numbers in one Mobile_Phone string
MaxPhones == 2

\* the number of calls of run_sync on one SyncService
MaxPasses == 2

(***************************************************************************)
(* Nullable columns and optional Python values: NULL / None is the empty   *)
(* sequence, a present value v is <<v>>.  Text values whose characters     *)
(* matter (the booking identifier) are sequences of characters, so the     *)
(* empty string is <<>> as well; the code never stores '' in book_id_mis.  *)
(***************************************************************************)
Null == <<>>
Some(v) == <<v>>

Coalesce(a, b) == IF a # Null THEN a ELSE b

B1 == <<"a">>
B2 == <<"b">>
B1Padded == <<"a", " ">>

RECURSIVE LStrip(_)
LStrip(s) == IF s # <<>> /\ Head(s) = " " THEN LStrip(Tail(s)) ELSE s

RECURSIVE RStrip(_)
RStrip(s) == IF s # <<>> /\ s[Len(s)] = " " THEN RStrip(SubSeq(s, 1, Len(s) - 1)) ELSE s

\* str.strip() of the booking identifier
Strip(s) == RStrip(LStrip(s))

(***************************************************************************)
(* The user directory (table users) and the per-user reminders flag.       *)
(* Birth dates are <<year, month, day>> in the feed's YYYY-MM-DD order and *)
(* <<day, month, year>> in the directory's DD.MM.YYYY order.               *)
(***************************************************************************)
users == {
    [user_id |-> 1, fio |-> <<"IVANOV", "IVAN">>, phone |-> <<"+", "7", "1">>,
     birth_date |-> <<1, 5, 1980>>],
    [user_id |-> 2, fio |-> <<"PETROV", "PETR">>, phone |-> <<"7", "2">>,
     birth_date |-> <<2, 6, 1990>>] }

UserIds == {u.user_id : u \in users}

UnknownUser == Cardinality(users) + 1

VARIABLES
    appointments,      \* table appointments: a set of rows
    next_id,           \* the BIGSERIAL sequence of appointments.id
    visit_mo_unique,   \* whether idx_appointments_user_visit_mo is UNIQUE
    now,               \* the database clock, NOW() / CURRENT_TIMESTAMP
    today,             \* date.today()
    reminders,         \* user_reminders.enabled per user
    bookings,          \* number of rows created by the interactive booking flow
    last_op,           \* the latest store call and its result
    repeated,          \* whether the latest store call repeats the one before it
    ops,               \* number of store calls made directly
    tasks,             \* the coroutines that can run a pass, by trigger
    is_syncing,        \* SyncCommandHandler.is_syncing
    step,              \* the latest step of a pass (history)
    notified,          \* per row id, the number of delivered messages that list it
    notifier,          \* the Notifier instance and its call in progress
    fetcher,           \* the Fetcher instance and its fetch in progress
    call               \* the call, in progress or latest, of a component run alone

store_vars == <<appointments, next_id, visit_mo_unique, now, today, reminders,
                bookings, last_op, repeated, ops>>

pass_vars == <<tasks, is_syncing, step, notified, notifier, fetcher, call>>

vars == <<appointments, next_id, visit_mo_unique, now, today, reminders,
          bookings, last_op, repeated, ops, tasks, is_syncing, step, notified,
          notifier, fetcher, call>>

(***************************************************************************)
(* Visit times: a calendar day and a time of day.                          *)
(***************************************************************************)
VisitTime(d, s) == [day |-> d, slot |-> s]

Mo(n) == Some(n)


\* appointment_data as built by the parser (the keys that the store reads
\* or merges); JSON documents are functions from keys to values
AppointmentData(book, doc) == [Book_Id_Mis |-> book, doctor |-> doc]

\* appointment_data as built by the booking flow: the parser's keys and
\* keys of its own (Room)
BookingData(book, doc) == [Book_Id_Mis |-> book, doctor |-> doc, Room |-> "R1"]

\* jsonb concatenation a || b: keys of b replace keys of a.
\* (JsonConcatKeep is the faulty variant in which the keys of a win.)
JsonConcatKeep(a, b) ==
    [k \in (DOMAIN a) \cup (DOMAIN b) |-> IF k \in DOMAIN a THEN a[k] ELSE b[k]]
JsonConcat(a, b) ==
    [k \in (DOMAIN a) \cup (DOMAIN b) |-> IF k \in DOMAIN b THEN b[k] ELSE a[k]]

NoResult == [success |-> FALSE, inserted |-> FALSE, id |-> Null]

NoOp == [op |-> "none"]

(***************************************************************************)
(* _init_appointments_table: a UNIQUE idx_appointments_user_visit_mo left  *)
(* by an older version is dropped and the index is recreated non-unique;   *)
(* when the drop fails (the failure is logged and ignored) the unique      *)
(* index stays.                                                            *)
(***************************************************************************)
InitVisitMoIndex(was_unique, dropped) == was_unique /\ ~dropped

RowById(T, id) == CHOOSE r \in T : r.id = id

HasRow(T, id) == \E r \in T : r.id = id

\* an UPDATE of one row: r replaces the row with its id.
\* (ReplaceRowKeepOld is the faulty variant that keeps the old version.)
ReplaceRowKeepOld(T, r) == T \cup {r}
ReplaceRow(T, r) == {x \in T : x.id # r.id} \cup {r}

\* rows that occupy the slot (user_id, external_visit_time, external_mo_name)
SlotRows(T, user_id, visit_time, mo_name) ==
    {r \in T : /\ r.user_id = user_id
               /\ visit_time # Null /\ r.external_visit_time = visit_time
               /\ mo_name # Null /\ r.external_mo_name = mo_name}

\* rows that hold the key (user_id, book_id_mis); NULL equals nothing.
\* (BookRowsRaw is the faulty variant that compares the key with the
\* identifier as the payload spells it.)
BookRowsRaw(T, user_id, book) ==
    {r \in T : r.user_id = user_id /\ book # Null
               /\ r.appointment_json.Book_Id_Mis = book}
BookRows(T, user_id, book) ==
    {r \in T : r.user_id = user_id /\ book # Null /\ r.book_id_mis = book}

NewRow(id, user_id, json, book, visit_time, mo_name, t) ==
    [id |-> id, user_id |-> user_id, book_id_mis |-> book,
     appointment_json |-> json,
     external_visit_time |-> visit_time, external_mo_name |-> mo_name,
     created_at |-> Some(t), status |-> "active",
     cancelled_at |-> Null, cancelled_by |-> Null,
     reminder_24h_sent_at |-> Null]

(***************************************************************************)
(* add_appointment, the branch taken on a violation of the unique index    *)
(* idx_appointments_user_visit_mo: merge into the row that holds the slot. *)
(***************************************************************************)
MergeIntoSlotRow(T, nid, user_id, appointment_data, book, visit_time, mo_name) ==
    LET slot == SlotRows(T, user_id, visit_time, mo_name)
    IN  IF slot = {} THEN [T |-> T, nid |-> nid, res |-> NoResult]
        ELSE LET row == CHOOSE r \in slot : TRUE
                 patch == IF row.book_id_mis # Null /\ row.book_id_mis # book
                             /\ "Book_Id_Mis_Original" \notin DOMAIN appointment_data
                          THEN JsonConcat(appointment_data,
                                   [k \in {"Book_Id_Mis_Original"} |-> row.book_id_mis])
                          ELSE appointment_data
                 upd == [row EXCEPT !.appointment_json = JsonConcat(@, patch),
                                    !.book_id_mis = book,
                                    !.status = "active",
                                    !.cancelled_at = Null]
             IN  IF BookRows(T, user_id, book) \ {row} # {}
                 THEN [T |-> T, nid |-> nid, res |-> NoResult]
                 ELSE [T |-> ReplaceRow(T, upd), nid |-> nid,
                       res |-> [success |-> TRUE, inserted |-> FALSE, id |-> Some(row.id)]]

(***************************************************************************)
(* AppointmentsDatabase.add_appointment                                    *)
(***************************************************************************)
add_appointment(T, nid, t, user_id, appointment_data, visit_time, mo_name) ==
    IF user_id \notin UserIds THEN [T |-> T, nid |-> nid, res |-> NoResult]
    ELSE
    LET book == Strip(appointment_data.Book_Id_Mis)
        slot == SlotRows(T, user_id, visit_time, mo_name)
        conflict == BookRows(T, user_id, book)
    IN  IF book # Null
        THEN IF conflict = {}
             THEN IF visit_mo_unique /\ slot # {}
                  THEN MergeIntoSlotRow(T, nid, user_id, appointment_data, book,
                                        visit_time, mo_name)
                  ELSE [T |-> T \cup {NewRow(nid, user_id, appointment_data, book,
                                             visit_time, mo_name, t)},
                        nid |-> nid + 1,
                        res |-> [success |-> TRUE, inserted |-> TRUE, id |-> Some(nid)]]
             ELSE LET row == CHOOSE r \in conflict : TRUE
                      upd == [row EXCEPT
                                !.appointment_json = JsonConcat(@, appointment_data),
                                !.external_visit_time = Coalesce(visit_time, @),
                                !.external_mo_name = Coalesce(mo_name, @),
                                !.status = "active",
                                !.cancelled_at = Null]
                  IN  IF visit_mo_unique
                         /\ SlotRows(T, user_id, upd.external_visit_time,
                                     upd.external_mo_name) \ {row} # {}
                      THEN MergeIntoSlotRow(T, nid, user_id, appointment_data, book,
                                            visit_time, mo_name)
                      ELSE [T |-> ReplaceRow(T, upd), nid |-> nid,
                            res |-> [success |-> TRUE, inserted |-> FALSE,
                                     id |-> Some(row.id)]]
        ELSE \* fallback key: ON CONFLICT (user_id, external_visit_time,
             \* external_mo_name) needs a unique index on these columns;
             \* without one the statement is rejected and the call fails
             IF ~visit_mo_unique THEN [T |-> T, nid |-> nid, res |-> NoResult]
             ELSE IF slot # {}
                  THEN [T |-> T, nid |-> nid,
                        res |-> [success |-> TRUE, inserted |-> FALSE, id |-> Null]]
                  ELSE [T |-> T \cup {NewRow(nid, user_id, appointment_data, Null,
                                             visit_time, mo_name, t)},
                        nid |-> nid + 1,
                        res |-> [success |-> TRUE, inserted |-> TRUE, id |-> Some(nid)]]

(***************************************************************************)
(* UserDatabase.add_appointment: the insert used by the interactive        *)
(* booking flow.  The visit time and organization are taken from the       *)
(* payload; a payload without identifier never conflicts on                *)
(* (user_id, book_id_mis), NULLs being distinct.                           *)
(***************************************************************************)
db_add_appointment(T, nid, t, user_id, appointment_data, visit_time, mo_name) ==
    IF user_id \notin UserIds THEN [T |-> T, nid |-> nid, ok |-> FALSE]
    ELSE
    LET book == Strip(appointment_data.Book_Id_Mis)
        slot == SlotRows(T, user_id, visit_time, mo_name)
        conflict == BookRows(T, user_id, book)
        slot_clash(rows) == visit_mo_unique /\ rows # {}
        merge(excl) ==
            IF slot = {} THEN [T |-> T, nid |-> nid, ok |-> FALSE]
            ELSE LET row == CHOOSE r \in slot : TRUE
                     patch == IF row.book_id_mis # Null /\ book # Null
                                 /\ row.book_id_mis # book
                                 /\ "Book_Id_Mis_Original" \notin DOMAIN appointment_data
                              THEN JsonConcat(appointment_data,
                                       [k \in {"Book_Id_Mis_Original"} |-> row.book_id_mis])
                              ELSE appointment_data
                     upd == [row EXCEPT !.appointment_json = JsonConcat(@, patch),
                                        !.book_id_mis = Coalesce(book, @),
                                        !.status = "active",
                                        !.cancelled_at = Null]
                 IN  IF BookRows(T, user_id, upd.book_id_mis) \ {row} # {}
                     THEN [T |-> T, nid |-> nid, ok |-> FALSE]
                     ELSE [T |-> ReplaceRow(T, upd), nid |-> nid, ok |-> TRUE]
    IN  IF conflict = {}
        THEN IF slot_clash(slot) THEN merge(TRUE)
             ELSE [T |-> T \cup {NewRow(nid, user_id, appointment_data, book,
                                        visit_time, mo_name, t)},
                   nid |-> nid + 1, ok |-> TRUE]
        ELSE LET row == CHOOSE r \in conflict : TRUE
                 upd == [row EXCEPT
                           !.appointment_json = JsonConcat(@, appointment_data),
                           !.external_visit_time = Coalesce(visit_time, @),
                           !.external_mo_name = Coalesce(mo_name, @),
                           !.status = "active",
                           !.cancelled_at = Null]
             IN  IF slot_clash(SlotRows(T, user_id, upd.external_visit_time,
                                        upd.external_mo_name) \ {row})
                 THEN merge(TRUE)
                 ELSE [T |-> ReplaceRow(T, upd), nid |-> nid, ok |-> TRUE]

(***************************************************************************)
(* AppointmentsDatabase.get_reminder_24h_sent_at                           *)
(***************************************************************************)
get_reminder_24h_sent_at(T, appointment_id) ==
    IF HasRow(T, appointment_id) THEN RowById(T, appointment_id).reminder_24h_sent_at
    ELSE Null

(***************************************************************************)
(* AppointmentsDatabase.mark_reminder_24h_sent: the rows with one of the   *)
(* given ids whose reminder_24h_sent_at IS NULL get NOW().                 *)
(* (MarkedRowsAny is the faulty variant without the IS NULL condition.)    *)
(***************************************************************************)
MarkedRowsAny(T, appointment_ids) == {r \in T : r.id \in appointment_ids}
MarkedRows(T, appointment_ids) ==
    {r \in T : r.id \in appointment_ids /\ r.reminder_24h_sent_at = Null}

mark_reminder_24h_sent(T, t, appointment_ids) ==
    LET hit == MarkedRows(T, appointment_ids)
    IN  [T |-> (T \ hit) \cup {[r EXCEPT !.reminder_24h_sent_at = Some(t)] : r \in hit},
         updated |-> Cardinality(hit)]

(***************************************************************************)
(* AppointmentsDatabase.cancel_appointment.  Times are in hours.           *)
(***************************************************************************)
CancelWindowHours == 3

\* (cancel_appointment_from_window is the faulty variant that refuses a row
\* that is exactly three hours old; cancel_appointment_forced_again the one
\* that with force cancels a cancelled row once more.)
cancel_appointment_forced_again(T, t, appointment_id, user_id, cancelled_by, force) ==
    LET found == {r \in T : r.id = appointment_id /\ r.user_id = user_id}
    IN  IF found = {} THEN [T |-> T, success |-> FALSE]
        ELSE LET row == CHOOSE r \in found : TRUE
             IN  IF ~force /\ row.status = "cancelled" THEN [T |-> T, success |-> FALSE]
                 ELSE IF ~force /\ row.created_at # Null
                         /\ t - row.created_at[1] > CancelWindowHours
                 THEN [T |-> T, success |-> FALSE]
                 ELSE [T |-> ReplaceRow(T, [row EXCEPT !.status = "cancelled",
                                                       !.cancelled_at = Some(t),
                                                       !.cancelled_by = Some(cancelled_by)]),
                       success |-> TRUE]
cancel_appointment_from_window(T, t, appointment_id, user_id, cancelled_by, force) ==
    LET found == {r \in T : r.id = appointment_id /\ r.user_id = user_id}
    IN  IF found = {} THEN [T |-> T, success |-> FALSE]
        ELSE LET row == CHOOSE r \in found : TRUE
             IN  IF row.status = "cancelled" THEN [T |-> T, success |-> FALSE]
                 ELSE IF ~force /\ row.created_at # Null
                         /\ t - row.created_at[1] >= CancelWindowHours
                 THEN [T |-> T, success |-> FALSE]
                 ELSE IF row.status # "active" THEN [T |-> T, success |-> FALSE]
                 ELSE [T |-> ReplaceRow(T, [row EXCEPT !.status = "cancelled",
                                                       !.cancelled_at = Some(t),
                                                       !.cancelled_by = Some(cancelled_by)]),
                       success |-> TRUE]
cancel_appointment(T, t, appointment_id, user_id, cancelled_by, force) ==
    LET found == {r \in T : r.id = appointment_id /\ r.user_id = user_id}
    IN  IF found = {} THEN [T |-> T, success |-> FALSE]
        ELSE LET row == CHOOSE r \in found : TRUE
             IN  IF row.status = "cancelled" THEN [T |-> T, success |-> FALSE]
                 ELSE IF ~force /\ row.created_at # Null
                         /\ t - row.created_at[1] > CancelWindowHours
                 THEN [T |-> T, success |-> FALSE]
                 ELSE IF row.status # "active" THEN [T |-> T, success |-> FALSE]
                 ELSE [T |-> ReplaceRow(T, [row EXCEPT !.status = "cancelled",
                                                       !.cancelled_at = Some(t),
                                                       !.cancelled_by = Some(cancelled_by)]),
                       success |-> TRUE]

(***************************************************************************)
(* AppointmentsDatabase.get_all_active_future_appointments: status active  *)
(* and external_visit_time >= NOW(); a NULL visit time never satisfies the *)
(* comparison.  The clock is compared by calendar day.                     *)
(***************************************************************************)
get_all_active_future_appointments(T, d) ==
    {r \in T : /\ r.status = "active"
               /\ r.external_visit_time # Null
               /\ r.external_visit_time[1].day >= d}

(***************************************************************************)
(* Feed records.  A record carries the patient's name tokens, birth date   *)
(* and phones (Mobile_Phone as normalize_phone returns it), the visit      *)
(* time, the organization, the booking identifier and the doctor.          *)
(***************************************************************************)
Patient(p) ==
    CASE p = "p1"  -> [fio |-> <<"IVAN", "IVANOV">>, birth_date |-> <<1980, 5, 1>>,
                       phones |-> << <<"+", "7", "1">> >>]
      [] p = "p1x" -> [fio |-> <<"IVAN", "IVANOV">>, birth_date |-> <<1980, 5, 1>>,
                       phones |-> << <<"+", "7", "3">> >>]
      [] p = "p2"  -> [fio |-> <<"PETROV", "PETR">>, birth_date |-> <<1990, 6, 2>>,
                       phones |-> << <<"+", "7", "2">> >>]

FeedRecord(p, book, day) ==
    [fio |-> Patient(p).fio, birth_date |-> Patient(p).birth_date,
     phones |-> Patient(p).phones,
     visit_time |-> Some(VisitTime(day, 9)), mo_name |-> "MO1",
     book |-> book, doctor |-> "D1"]

(***************************************************************************)
(* Parser._parse_single_record: the record is kept when the required       *)
(* fields are present, a phone and the birth date normalize, and the visit *)
(* date is tomorrow.                                                       *)
(***************************************************************************)
ParserKeeps(rec, d) ==
    /\ rec.fio # <<>>
    /\ rec.birth_date # Null
    /\ rec.phones # <<>>
    /\ rec.visit_time # Null
    /\ rec.visit_time[1].day = d + 1

\* Parser.parse_response
parse_response(feed, d) == SelectSeq(feed, LAMBDA rec : ParserKeeps(rec, d))

\* the counters of the parser after parse_response: a record for which
\* _parse_single_record returns a result is counted as processed, any other
\* record as an error
parse_counts(counts, feed, d) ==
    [processed_count |-> counts.processed_count + Len(parse_response(feed, d)),
     error_count |-> counts.error_count + (Len(feed) - Len(parse_response(feed, d)))]

\* Parser.__init__
NewParser == [processed_count |-> 0, error_count |-> 0]

(***************************************************************************)
(* Matcher                                                                 *)
(***************************************************************************)
Count(s, x) == Cardinality({i \in DOMAIN s : s[i] = x})

\* str.upper on a name token
Upper(token) ==
    CASE token = "ivan" -> "IVAN"
      [] token = "ivanov" -> "IVANOV"
      [] OTHER -> token

\* db_fio.strip().upper().split()
UpperTokens(fio) == [i \in DOMAIN fio |-> Upper(fio[i])]

\* sorted(db_fio.split()) == sorted(normalized_fio.split()).
\* (match_fio_as_sets is the faulty variant that compares the sets of tokens.)
match_fio_as_sets(user, fio) ==
    /\ user.fio # <<>>
    /\ {UpperTokens(user.fio)[i] : i \in DOMAIN user.fio} = {fio[i] : i \in DOMAIN fio}
match_fio(user, fio) ==
    /\ user.fio # <<>>
    /\ Len(user.fio) = Len(fio)
    /\ \A i \in DOMAIN fio :
          Count(UpperTokens(user.fio), fio[i]) = Count(fio, fio[i])

RECURSIVE LStripPlus(_)
LStripPlus(s) == IF s # <<>> /\ Head(s) = "+" THEN LStripPlus(Tail(s)) ELSE s

match_phone(user, phones) ==
    /\ user.phone # <<>>
    /\ \/ \E i \in DOMAIN phones : user.phone = phones[i]
       \/ \E i \in DOMAIN phones : LStripPlus(user.phone) = LStripPlus(phones[i])

\* YYYY-MM-DD to DD.MM.YYYY
DbDateFormat(b) == <<b[3], b[2], b[1]>>

\* Matcher._find_users_by_birth_date: the rows of the directory (a sequence,
\* in the order in which the query returns them) with the birth date
find_users_by_birth_date(directory, b) ==
    SelectSeq(directory, LAMBDA u : u.birth_date = DbDateFormat(b))

\* the loop over users_with_same_birthdate: the first user whose name and
\* phone match
RECURSIVE first_match(_, _)
first_match(candidates, rec) ==
    IF candidates = <<>> THEN Null
    ELSE IF match_fio(Head(candidates), rec.fio)
            /\ match_phone(Head(candidates), rec.phones)
    THEN Some(Head(candidates).user_id)
    ELSE first_match(Tail(candidates), rec)

\* Matcher.find_user_by_patient_data over a directory: the user id, or Null
find_user_in(directory, rec) ==
    IF rec.fio = <<>> \/ rec.phones = <<>> \/ rec.birth_date = Null THEN Null
    ELSE first_match(find_users_by_birth_date(directory, rec.birth_date), rec)

\* table users as the query returns it
RECURSIVE TableOf(_)
TableOf(rows) ==
    IF rows = {} THEN <<>>
    ELSE LET u == CHOOSE x \in rows : \A y \in rows : x.user_id <= y.user_id
         IN  <<u>> \o TableOf(rows \ {u})

\* Matcher.find_user_by_patient_data: the user id, or Null
find_user_by_patient_data(rec) == find_user_in(TableOf(users), rec)

\* Matcher.batch_match: the matched records, in feed order, with their user
RECURSIVE batch_match(_)
batch_match(parsed) ==
    IF parsed = <<>> THEN <<>>
    ELSE LET m == find_user_by_patient_data(Head(parsed))
         IN  (IF m = Null THEN <<>>
              ELSE << [user_id |-> m[1], rec |-> Head(parsed)] >>)
             \o batch_match(Tail(parsed))

\* Matcher.batch_match: the records without a user, results['unmatched']
unmatched_records(parsed) ==
    SelectSeq(parsed, LAMBDA rec : find_user_by_patient_data(rec) = Null)

(***************************************************************************)
(* SyncService._get_last_inserted_id                                       *)
(***************************************************************************)
get_last_inserted_id(T, user_id, visit_time, mo_name, book) ==
    LET cand == IF book # <<>>
                THEN {r \in T : r.user_id = user_id /\ r.book_id_mis = book
                                /\ r.status = "active"}
                ELSE {r \in SlotRows(T, user_id, visit_time, mo_name) :
                         r.status = "active"}
    IN  IF cand = {} THEN Null
        ELSE Some((CHOOSE r \in cand :
                      \A o \in cand : o.created_at[1] <= r.created_at[1]).id)

\* user_new_appointments[user_id].append(...): a dict in insertion order
QueueAppend(queue, user_id, db_id) ==
    IF \E i \in DOMAIN queue : queue[i].user_id = user_id
    THEN [i \in DOMAIN queue |->
            IF queue[i].user_id = user_id
            THEN [queue[i] EXCEPT !.ids = Append(@, db_id)] ELSE queue[i]]
    ELSE Append(queue, [user_id |-> user_id, ids |-> <<db_id>>])

(***************************************************************************)
(* SyncService.run_sync, stage 4 for one matched record (and the same      *)
(* stage of force_sync_with_mock when mock is TRUE).                       *)
(***************************************************************************)
\* db_id = save_result.get('id') or self._get_last_inserted_id(...)
SavedId(m, r) ==
    IF r.res.id # Null THEN r.res.id
    ELSE get_last_inserted_id(r.T, m.user_id, m.rec.visit_time,
                              Mo(m.rec.mo_name), m.rec.book)

\* whether the saved appointment joins the notification queue: run_sync
\* queues a row whose reminder was not sent yet, the mock pass a new row
Queued(r, db_id, mock) ==
    IF mock THEN r.res.inserted
    ELSE db_id # Null /\ get_reminder_24h_sent_at(r.T, db_id[1]) = Null

\* the rest of the loop body, r being what add_appointment returned.
\* (AfterSaveUncounted is the faulty variant that leaves total_saved alone.)
AfterSaveUncounted(acc, m, r, db_id, mock) ==
    IF ~r.res.success THEN acc
    ELSE [T |-> r.T, nid |-> r.nid,
          saved |-> acc.saved,
          added |-> IF r.res.inserted /\ db_id # Null
                    THEN acc.added \cup {db_id[1]} ELSE acc.added,
          queue |-> IF Queued(r, db_id, mock)
                    THEN QueueAppend(acc.queue, m.user_id, db_id)
                    ELSE acc.queue]
AfterSave(acc, m, r, db_id, mock) ==
    IF ~r.res.success THEN acc
    ELSE [T |-> r.T, nid |-> r.nid,
          saved |-> IF r.res.inserted THEN acc.saved + 1 ELSE acc.saved,
          added |-> IF r.res.inserted /\ db_id # Null
                    THEN acc.added \cup {db_id[1]} ELSE acc.added,
          queue |-> IF Queued(r, db_id, mock)
                    THEN QueueAppend(acc.queue, m.user_id, db_id)
                    ELSE acc.queue]

WithSaved(acc, m, r, mock) == AfterSave(acc, m, r, SavedId(m, r), mock)

\* one iteration of the loop over matched_records.
\* (PersistOneAlways is the faulty variant without the reminders check.)
PersistOneAlways(acc, m, t, mock) ==
    WithSaved(acc, m,
              add_appointment(acc.T, acc.nid, t, m.user_id,
                              AppointmentData(m.rec.book, m.rec.doctor),
                              m.rec.visit_time, Mo(m.rec.mo_name)),
              mock)
PersistOne(acc, m, t, mock) ==
    IF ~reminders[m.user_id] THEN acc
    ELSE WithSaved(acc, m,
                   add_appointment(acc.T, acc.nid, t, m.user_id,
                                   AppointmentData(m.rec.book, m.rec.doctor),
                                   m.rec.visit_time, Mo(m.rec.mo_name)),
                   mock)

RECURSIVE PersistAll(_, _, _, _)
PersistAll(acc, matched, t, mock) ==
    IF matched = <<>> THEN acc
    ELSE PersistAll(PersistOne(acc, Head(matched), t, mock), Tail(matched), t, mock)

(***************************************************************************)
(* SyncService.run_sync, stage 4.1: the keys reported by the matched       *)
(* records and the cancellation of tomorrow's local rows that are missing. *)
(***************************************************************************)
rmis_book_ids_set(matched) ==
    {<<matched[i].user_id, matched[i].rec.book>> :
        i \in {j \in DOMAIN matched : matched[j].rec.book # <<>>}}

rmis_appointments_set(matched) ==
    {<<matched[i].user_id, matched[i].rec.visit_time, Mo(matched[i].rec.mo_name)>> :
        i \in DOMAIN matched}

\* the rows that the loop over active_appointments cancels.
\* (MissingInRmisAnyDate is the faulty variant without the date filter.)
MissingInRmisAnyDate(T, matched, added, d) ==
    {r \in get_all_active_future_appointments(T, d) :
        /\ r.id \notin added
        /\ IF r.book_id_mis # Null
           THEN <<r.user_id, r.book_id_mis>> \notin rmis_book_ids_set(matched)
           ELSE <<r.user_id, r.external_visit_time, r.external_mo_name>>
                    \notin rmis_appointments_set(matched)}
MissingInRmis(T, matched, added, d) ==
    {r \in get_all_active_future_appointments(T, d) :
        /\ r.id \notin added
        /\ r.external_visit_time[1].day = d + 1
        /\ IF r.book_id_mis # Null
           THEN <<r.user_id, r.book_id_mis>> \notin rmis_book_ids_set(matched)
           ELSE <<r.user_id, r.external_visit_time, r.external_mo_name>>
                    \notin rmis_appointments_set(matched)}

RECURSIVE CancelAll(_, _, _)
CancelAll(T, rows, t) ==
    IF rows = {} THEN T
    ELSE LET r == CHOOSE x \in rows : TRUE
         IN  CancelAll(cancel_appointment(T, t, r.id, r.user_id, "system_sync", TRUE).T,
                       rows \ {r}, t)

Reconcile(T, matched, added, d, t) == CancelAll(T, MissingInRmis(T, matched, added, d), t)

(***************************************************************************)
(* run_sync from the arrival of the feed to the start of the notification  *)
(* stage: the table after stage 4 (mid), after stage 4.1 (T), and the      *)
(* queue of notifications.  An empty parse result or an empty match result *)
(* returns before stage 4.  force_sync_with_mock (mock = TRUE) runs the    *)
(* same stages without stage 4.1.                                          *)
(***************************************************************************)
NoAcc(T, nid) == [T |-> T, nid |-> nid, saved |-> 0, added |-> {}, queue |-> <<>>]

StagesResult(T, nid, parsed, matched, acc, d, t, mock) ==
    IF parsed = <<>> \/ matched = <<>>
    THEN [T |-> T, mid |-> T, nid |-> nid, queue |-> <<>>, reconciled |-> FALSE,
          parsed |-> Len(parsed), matched |-> Len(matched), saved |-> 0,
          unmatched |-> 0]
    ELSE [T |-> IF mock THEN acc.T ELSE Reconcile(acc.T, matched, acc.added, d, t),
          mid |-> acc.T, nid |-> acc.nid, queue |-> acc.queue, reconciled |-> ~mock,
          parsed |-> Len(parsed), matched |-> Len(matched), saved |-> acc.saved,
          unmatched |-> Len(unmatched_records(parsed))]

MatchedStages(T, nid, parsed, matched, d, t, mock) ==
    StagesResult(T, nid, parsed, matched,
                 PersistAll(NoAcc(T, nid), matched, t, mock), d, t, mock)

ParsedStages(T, nid, parsed, d, t, mock) ==
    MatchedStages(T, nid, parsed, batch_match(parsed), d, t, mock)

\* the matched records of a feed
MatchedAt(feed, d) == batch_match(parse_response(feed, d))

run_sync_stages(T, nid, feed, d, t) ==
    ParsedStages(T, nid, parse_response(feed, d), d, t, FALSE)

\* SyncService.force_sync_with_mock up to the notification stage
mock_sync_stages(T, nid, feed, d, t) ==
    ParsedStages(T, nid, parse_response(feed, d), d, t, TRUE)

(***************************************************************************)
(* The coroutines that run a pass: the scheduler's daily job and its       *)
(* manual job (SchedulerManager._run_sync_wrapper), and the handlers of    *)
(* the admin commands (SyncCommandHandler).  A coroutine is suspended at   *)
(* its awaits: pc names the await it is suspended at.                      *)
(*   idle      no invocation in progress                                   *)
(*   reply     an admin handler awaiting the send of its last message      *)
(*   fetching  awaiting the feed (or, for an admin handler, the send of    *)
(*             the start message followed by the feed)                     *)
(*   sending   in Notifier.send_batch_notifications, awaiting a send       *)
(*   marking   awaiting the pause after the last send of the batch         *)
(***************************************************************************)
SchedulerTasks == {"daily", "manual"}

AdminTasks == {"admin1", "admin2"}

Tasks == SchedulerTasks \cup AdminTasks

(***************************************************************************)
(* Notifier.  A response of the transport is the result of                 *)
(* bot.send_message: a message (is_error FALSE) or an Error with its code  *)
(* and the code of its raw body.                                           *)
(***************************************************************************)
RETRY_ON_429_DELAYS == <<2, 4, 8>>

\* enumerate([0] + list(RETRY_ON_429_DELAYS)): the pause before each attempt
Schedule == <<0>> \o RETRY_ON_429_DELAYS

AllowedFromHour == 8

AllowedBeforeHour == 22

\* utils.is_within_allowed_hours.
\* (is_within_allowed_hours_incl is the faulty variant that admits hour 22.)
is_within_allowed_hours_incl(hour) ==
    AllowedFromHour <= hour /\ hour <= AllowedBeforeHour
is_within_allowed_hours(hour) ==
    AllowedFromHour <= hour /\ hour < AllowedBeforeHour

Sent == [is_error |-> FALSE, code |-> 200, raw |-> ""]

Err(code, raw) == [is_error |-> TRUE, code |-> code, raw |-> raw]

ChatUnavailable == {Err(403, "chat.denied"), Err(403, "error.dialog.suspended")}

RateLimited == Err(429, "")

TransportResponses ==
    {Sent, RateLimited, Err(403, "other"), Err(500, "")} \cup ChatUnavailable

\* the body of the loop of _send_message_with_retry after the send of the
\* attempt (counted from 0): what the iteration decides.
\* (after_send_retry_any is the faulty variant that retries on any error
\* that is not chat-unavailable.)
after_send_retry_any(attempt, result) ==
    IF ~result.is_error THEN "sent"
    ELSE IF result.code = 403 /\ result.raw \in {"chat.denied", "error.dialog.suspended"}
    THEN "denied"
    ELSE IF attempt < Len(RETRY_ON_429_DELAYS) THEN "continue"
    ELSE "retry_failed"
after_send(attempt, result) ==
    IF ~result.is_error THEN "sent"
    ELSE IF result.code = 403 /\ result.raw \in {"chat.denied", "error.dialog.suspended"}
    THEN "denied"
    ELSE IF result.code = 429
    THEN IF attempt < Len(RETRY_ON_429_DELAYS) THEN "continue" ELSE "retry_failed"
    ELSE "error"

\* what _send_message_with_retry does after the iteration: it goes on to
\* the next entry of the schedule, or returns; the for loop that runs out of
\* entries returns error (last_error is set)
loop_outcome(attempt, decided) ==
    IF decided = "continue" /\ attempt + 1 >= Len(Schedule) THEN "error" ELSE decided

\* what send_notification returns for the reason of _send_message_with_retry:
\* the status that _send_single_with_stats writes to the details.
\* (notification_status_same is the faulty variant that passes the reason on.)
notification_status_same(reason) == reason
notification_status(reason) ==
    CASE reason = "sent" -> "sent"
      [] reason = "denied" -> "denied"
      [] OTHER -> "error"

\* the counters of the Notifier after a call that ended with status.
\* (count_status_denied_as_error is the faulty variant that counts a denied
\* chat as an error.)
count_status_denied_as_error(n, status) ==
    CASE status = "sent" -> [n EXCEPT !.sent_count = @ + 1]
      [] status = "skipped_time" -> [n EXCEPT !.skipped_count = @ + 1]
      [] OTHER -> [n EXCEPT !.error_count = @ + 1]
count_status(n, status) ==
    CASE status = "sent" -> [n EXCEPT !.sent_count = @ + 1]
      [] status = "skipped_time" -> [n EXCEPT !.skipped_count = @ + 1]
      [] status = "denied" -> [n EXCEPT !.denied_count = @ + 1]
      [] OTHER -> [n EXCEPT !.error_count = @ + 1]

\* Notifier.__init__, no batch and no call in progress
IdleNotifier ==
    [sent_count |-> 0, skipped_count |-> 0, error_count |-> 0, denied_count |-> 0,
     pc |-> "idle", batches |-> 0, queue |-> <<>>, details |-> <<>>,
     results |-> Null, attempt |-> 0, responses |-> <<>>, waited |-> <<>>]

\* send_notification has returned status for the first user of the queue:
\* the counters, the details of the batch, and the move to the next user
Returned(n, status) ==
    [count_status(n, status) EXCEPT
        !.details = Append(@, [user_id |-> Head(n.queue), status |-> status]),
        !.queue = Tail(@),
        !.pc = "next"]

(***************************************************************************)
(* Fetcher.  An outcome of _fetch_single is the payload of a 200 response  *)
(* ("ok") or None: another HTTP status, a network error, a timeout.        *)
(***************************************************************************)
default_max_retries == 10

default_retry_delay == 600

FetchOutcomes == {"ok", "http_error", "client_error", "timeout"}

\* the body of the loop of _fetch_with_retry after the attempt number
\* attempt (counted from 1): return the data, sleep, or leave the loop.
\* (after_fetch_sleep_always is the faulty variant that sleeps after the
\* last attempt too.)
after_fetch_sleep_always(attempt, max_retries, outcome) ==
    IF outcome = "ok" THEN "return_data"
    ELSE IF attempt <= max_retries THEN "sleep"
    ELSE "loop_end"
after_fetch(attempt, max_retries, outcome) ==
    IF outcome = "ok" THEN "return_data"
    ELSE IF attempt < max_retries THEN "sleep"
    ELSE "loop_end"

\* Fetcher.__init__ with max_retries attempts
IdleFetcher(max_retries) ==
    [max_retries |-> max_retries, retry_delay |-> default_retry_delay,
     pc |-> "idle", calls |-> 0, attempt |-> 0, failures |-> 0, sleeps |-> 0,
     waited |-> 0, result |-> Null]

\* the totals of a pass: records parsed, records matched, rows inserted,
\* and the unmatched_count handed to _create_success_result
Summary(parsed, matched, saved, unmatched) ==
    [total_received |-> parsed, patients_matched |-> matched,
     new_appointments_saved |-> saved, patients_unmatched |-> unmatched]

NoSummary == Summary(0, 0, 0, 0)

\* SyncService._create_error_result.
\* (create_error_result_ok is the faulty variant that reports success.)
create_error_result_ok(error_message) ==
    [success |-> TRUE, error |-> Some(error_message), summary |-> NoSummary]
create_error_result(error_message) ==
    [success |-> FALSE, error |-> Some(error_message), summary |-> NoSummary]

\* SyncService._create_success_result
create_success_result(summary) ==
    [success |-> TRUE, error |-> Null, summary |-> summary]

\* SyncService.__init__: no pass has finished
NewService == [last_sync_time |-> Null, last_sync_result |-> Null]

\* run_sync, the end of step 6: the only assignment of the two fields
sync_recorded(result, t) ==
    [last_sync_time |-> Some(t), last_sync_result |-> Some(result)]

\* SyncService.get_status: the two fields that describe the latest pass
get_status(s) ==
    [last_sync_time |-> s.last_sync_time,
     last_sync_success |-> IF s.last_sync_result # Null
                           THEN Some(s.last_sync_result[1].success) ELSE Null]

IdleTask == [pc |-> "idle", kind |-> "none", queue |-> <<>>, details |-> <<>>,
             summary |-> NoSummary]

NoStep == [a |-> "none"]

NoCall == [op |-> "none"]

\* where the caller of a finished pass continues
AfterPass(p) == IF p \in AdminTasks THEN "reply" ELSE "idle"

PassRunning(p) == tasks[p].pc \in {"fetching", "sending", "marking"}

InitCommon ==
    /\ appointments = {}
    /\ next_id = 1
    /\ now = 0
    /\ today = 0
    /\ bookings = 0
    /\ last_op = NoOp
    /\ repeated = FALSE
    /\ ops = 0
    /\ tasks = [p \in Tasks |-> IdleTask]
    /\ is_syncing = FALSE
    /\ step = NoStep
    /\ notified = [i \in {} |-> 0]
    /\ notifier = IdleNotifier
    /\ fetcher = IdleFetcher(default_max_retries)
    /\ call = NoCall

(***************************************************************************)
(* SchedulerManager._run_sync_wrapper: the daily job (one instance at a    *)
(* time) or a job added by run_manual_sync starts run_sync.                *)
(***************************************************************************)
ScheduledSync(p) ==
    /\ p \in SchedulerTasks
    /\ tasks[p].pc = "idle"
    /\ tasks' = [tasks EXCEPT ![p] = [IdleTask EXCEPT !.pc = "fetching",
                                                      !.kind = "run_sync"]]
    /\ step' = NoStep
    /\ UNCHANGED <<store_vars, is_syncing, notified, notifier, fetcher, call>>

(***************************************************************************)
(* SyncCommandHandler._handle_sync_command up to its first await           *)
(***************************************************************************)
handle_sync_command(h) ==
    /\ h \in AdminTasks
    /\ tasks[h].pc = "idle"
    /\ IF is_syncing
       THEN /\ tasks' = [tasks EXCEPT ![h] = [IdleTask EXCEPT !.pc = "reply",
                                                              !.kind = "wait"]]
            /\ UNCHANGED is_syncing
       ELSE /\ is_syncing' = TRUE
            /\ tasks' = [tasks EXCEPT ![h] = [IdleTask EXCEPT !.pc = "fetching",
                                                              !.kind = "run_sync"]]
    /\ step' = NoStep
    /\ UNCHANGED <<store_vars, notifier, notified, fetcher, call>>

(***************************************************************************)
(* SyncCommandHandler._handle_mock_command up to its first await; has_path *)
(* tells whether the command names a file.                                 *)
(***************************************************************************)
handle_mock_command(h, has_path) ==
    /\ h \in AdminTasks
    /\ tasks[h].pc = "idle"
    /\ IF ~has_path \/ is_syncing
       THEN /\ tasks' = [tasks EXCEPT ![h] =
                          [IdleTask EXCEPT !.pc = "reply",
                                           !.kind = IF has_path THEN "wait" ELSE "usage"]]
            /\ UNCHANGED is_syncing
       ELSE /\ is_syncing' = TRUE
            /\ tasks' = [tasks EXCEPT ![h] = [IdleTask EXCEPT !.pc = "fetching",
                                                              !.kind = "mock"]]
    /\ step' = NoStep
    /\ UNCHANGED <<store_vars, notifier, notified, fetcher, call>>

(***************************************************************************)
(* The end of an admin handler: its last message is sent and the finally   *)
(* clause runs.                                                            *)
(***************************************************************************)
handler_finally(h) ==
    /\ h \in AdminTasks
    /\ tasks[h].pc = "reply"
    /\ is_syncing' = FALSE
    /\ tasks' = [tasks EXCEPT ![h] = IdleTask]
    /\ step' = NoStep
    /\ UNCHANGED <<store_vars, notifier, notified, fetcher, call>>

(***************************************************************************)
(* run_sync / force_sync_with_mock: the feed could not be obtained         *)
(***************************************************************************)
FetchFailed(p) ==
    /\ tasks[p].pc = "fetching"
    /\ tasks' = [tasks EXCEPT ![p] = [IdleTask EXCEPT !.pc = AfterPass(p)]]
    /\ step' = [a |-> "FetchFailed", task |-> p,
                result |-> create_error_result("fetch")]
    /\ UNCHANGED <<store_vars, is_syncing, notified, notifier, fetcher, call>>

(***************************************************************************)
(* run_sync / force_sync_with_mock from the arrival of the feed to the     *)
(* first await of the notification stage: parse, match, persist,           *)
(* reconcile.  No await separates these stages.                            *)
(***************************************************************************)
ProcessFeed(p, feed) ==
    /\ tasks[p].pc = "fetching"
    /\ \E r \in {IF tasks[p].kind = "mock"
                  THEN mock_sync_stages(appointments, next_id, feed, today, now)
                  ELSE run_sync_stages(appointments, next_id, feed, today, now)} :
           /\ appointments' = r.T
           /\ next_id' = r.nid
           /\ tasks' = [tasks EXCEPT ![p] =
                          IF r.queue = <<>>
                          THEN [IdleTask EXCEPT !.pc = AfterPass(p)]
                          ELSE [@ EXCEPT !.pc = "sending", !.queue = r.queue,
                                         !.summary = Summary(r.parsed, r.matched,
                                                             r.saved, r.unmatched)]]
           /\ step' = [a |-> "ProcessFeed", task |-> p, kind |-> tasks[p].kind,
                       feed |-> feed, mid |-> r.mid, reconciled |-> r.reconciled,
                       returned |-> (r.queue = <<>>),
                       result |-> create_success_result(
                                     Summary(r.parsed, r.matched, r.saved,
                                             r.unmatched))]
    /\ UNCHANGED <<visit_mo_unique, now, today, reminders, bookings,
                   last_op, repeated, ops, is_syncing, notified, notifier, fetcher, call>>

(***************************************************************************)
(* Exceptions raised inside the stages of run_sync.  A class is given by   *)
(* its method resolution order; "except Exception" catches an exception    *)
(* whose order holds Exception.                                            *)
(***************************************************************************)
Mro(exc) ==
    CASE exc = "KeyError"     -> <<"KeyError", "LookupError", "Exception", "BaseException">>
      [] exc = "TimeoutError" -> <<"TimeoutError", "Exception", "BaseException">>

StageExceptions == {"KeyError", "TimeoutError"}

IsInstance(exc, class) == \E i \in DOMAIN Mro(exc) : Mro(exc)[i] = class

\* the handler of run_sync's try block: except Exception.
\* (run_sync_catches_lookup is the faulty variant: except LookupError.)
run_sync_catches_lookup(exc) == IsInstance(exc, "LookupError")
run_sync_catches(exc) == IsInstance(exc, "Exception")

\* the stages between the arrival of the feed and the notification stage
FeedStages == {"fetch", "parse", "match", "upsert", "reconciliation"}

\* the notifications sent so far allow a further pass that does not mark
MayLoseMarking == \A i \in DOMAIN notified : notified[i] <= MaxLost

\* the table when stage raises: untouched before stage 4, after the first k
\* matched records when stage 4 raises, after all of them when stage 4.1
\* raises before its first cancellation
RaisedAfter(T, nid, matched, stage, k, t) ==
    CASE stage = "upsert" -> PersistAll(NoAcc(T, nid), SubSeq(matched, 1, k), t, FALSE)
      [] stage = "reconciliation" -> PersistAll(NoAcc(T, nid), matched, t, FALSE)
      [] OTHER -> NoAcc(T, nid)

\* how an invocation of run_sync that raised exc in stage ends: the handler
\* returns an error result, or the exception leaves run_sync and is logged
\* by the scheduler's wrapper (by the handler of the admin command)
Raised(p, stage, exc) ==
    /\ tasks' = [tasks EXCEPT ![p] = [IdleTask EXCEPT !.pc = AfterPass(p)]]
    /\ step' = [a |-> "StageFailed", task |-> p, stage |-> stage,
                propagated |-> ~run_sync_catches(exc),
                result |-> IF run_sync_catches(exc)
                           THEN Some(create_error_result(stage)) ELSE Null]

(***************************************************************************)
(* run_sync: an exception is raised in a stage before the notification     *)
(* stage; k is the number of matched records stored before it.             *)
(***************************************************************************)
FeedStageFailed(p, feed, stage, k, exc) ==
    /\ tasks[p].pc = "fetching"
    /\ tasks[p].kind = "run_sync"
    /\ stage \in FeedStages
    /\ k <= Len(MatchedAt(feed, today))
    /\ \E acc \in {RaisedAfter(appointments, next_id, MatchedAt(feed, today),
                               stage, k, now)} :
           /\ appointments' = acc.T
           /\ next_id' = acc.nid
    /\ Raised(p, stage, exc)
    /\ UNCHANGED <<visit_mo_unique, now, today, reminders, bookings,
                   last_op, repeated, ops, is_syncing, notified, notifier, fetcher, call>>

(***************************************************************************)
(* run_sync: send_batch_notifications raises                               *)
(***************************************************************************)
NotificationFailed(p, exc) ==
    /\ tasks[p].pc = "sending"
    /\ tasks[p].kind = "run_sync"
    /\ MayLoseMarking
    /\ Raised(p, "notification", exc)
    /\ UNCHANGED <<store_vars, is_syncing, notified, notifier, fetcher, call>>

(***************************************************************************)
(* run_sync: the marking of the sent reminders raises; the inner handler   *)
(* logs a warning and the pass goes on to its success result.              *)
(***************************************************************************)
MarkingFailed(p, exc) ==
    /\ tasks[p].pc = "marking"
    /\ tasks[p].kind = "run_sync"
    /\ MayLoseMarking
    /\ tasks' = [tasks EXCEPT ![p] = [IdleTask EXCEPT !.pc = AfterPass(p)]]
    /\ step' = [a |-> "StageFailed", task |-> p, stage |-> "reminder marking",
                propagated |-> ~IsInstance(exc, "Exception"),
                result |-> Some(create_success_result(tasks[p].summary))]
    /\ UNCHANGED <<store_vars, is_syncing, notified, notifier, fetcher, call>>

IdsOf(entry) == {entry.ids[i][1] : i \in {j \in DOMAIN entry.ids : entry.ids[j] # Null}}

(***************************************************************************)
(* Notifier._send_single_with_stats for the next user of the batch; the    *)
(* outcome is what send_notification returns.                              *)
(***************************************************************************)
SendOne(p, outcome) ==
    /\ tasks[p].pc = "sending"
    /\ LET entry == Head(tasks[p].queue)
           rest == Tail(tasks[p].queue)
           got == IF outcome = "sent" THEN IdsOf(entry) ELSE {}
       IN  /\ tasks' = [tasks EXCEPT ![p] =
                          [@ EXCEPT !.queue = rest,
                                    !.details = Append(@, [user_id |-> entry.user_id,
                                                           status |-> outcome,
                                                           ids |-> entry.ids]),
                                    !.pc = IF rest = <<>> THEN "marking" ELSE "sending"]]
           /\ notified' = [i \in (DOMAIN notified) \cup got |->
                             (IF i \in DOMAIN notified THEN notified[i] ELSE 0)
                             + (IF i \in got THEN 1 ELSE 0)]
           /\ step' = [a |-> "SendOne", task |-> p, outcome |-> outcome, ids |-> got]
    /\ UNCHANGED <<store_vars, notifier, is_syncing, fetcher, call>>

\* the ids of the users whose detail status is sent.
\* (IdsToMarkAnyStatus is the faulty variant that takes every user of the
\* batch.)
IdsToMarkAnyStatus(details) ==
    UNION {IdsOf(details[i]) : i \in DOMAIN details}
IdsToMark(details) ==
    UNION {IdsOf(details[i]) : i \in {j \in DOMAIN details : details[j].status = "sent"}}

(***************************************************************************)
(* run_sync after send_batch_notifications: reminder_24h_sent_at is set    *)
(* for the appointments of the users whose status is sent, and the pass    *)
(* returns.  force_sync_with_mock returns without marking.                 *)
(***************************************************************************)
FinishPass(p) ==
    /\ tasks[p].pc = "marking"
    /\ appointments' = IF tasks[p].kind = "mock" THEN appointments
                       ELSE mark_reminder_24h_sent(appointments, now,
                                                   IdsToMark(tasks[p].details)).T
    /\ tasks' = [tasks EXCEPT ![p] = [IdleTask EXCEPT !.pc = AfterPass(p)]]
    /\ step' = [a |-> "FinishPass", task |-> p,
                result |-> create_success_result(tasks[p].summary)]
    /\ UNCHANGED <<next_id, visit_mo_unique, now, today, reminders, bookings,
                   last_op, repeated, ops, is_syncing, notified, notifier, fetcher, call>>

(***************************************************************************)
(* The interactive booking flow stores an appointment                     *)
(* (visit_a_doctor/handlers.py calls UserDatabase.add_appointment).        *)
(***************************************************************************)
Booking(user_id, book, day) ==
    /\ bookings < MaxBookings
    /\ LET r == db_add_appointment(appointments, next_id, now, user_id,
                                   BookingData(book, "D1"),
                                   Some(VisitTime(day, 9)), Mo("MO1"))
       IN  /\ appointments' = r.T
           /\ next_id' = r.nid
    /\ bookings' = bookings + 1
    /\ step' = NoStep
    /\ UNCHANGED <<visit_mo_unique, now, today, reminders, last_op, repeated, ops,
                   tasks, is_syncing, notified, notifier, fetcher, call>>

(***************************************************************************)
(* Direct calls of the store's operations, with the call and its result    *)
(* recorded in last_op.                                                    *)
(***************************************************************************)
StoreUsers == UserIds \cup {UnknownUser}

StoreBooks == {<<>>, B1, B1Padded}

StoreDays == {1, 2}

\* the two ways the program calls cancel_appointment
CancelCalls ==
    { [cancelled_by |-> "user_cancel", force |-> FALSE],
      [cancelled_by |-> "system_sync", force |-> TRUE] }

SameCall(a, b) ==
    /\ a.op = "add" /\ b.op = "add"
    /\ a.user_id = b.user_id /\ a.data = b.data /\ a.day = b.day

Logged(entry) ==
    /\ last_op' = entry
    /\ repeated' = SameCall(last_op, entry)
    /\ ops' = ops + 1

StoreAdd(user_id, data, day) ==
    /\ ops < MaxStoreOps
    /\ LET r == add_appointment(appointments, next_id, now, user_id, data,
                                Some(VisitTime(day, 9)), Mo("MO1"))
       IN  /\ appointments' = r.T
           /\ next_id' = r.nid
           /\ Logged([op |-> "add", user_id |-> user_id, data |-> data, day |-> day,
                      res |-> r.res])
    /\ UNCHANGED <<visit_mo_unique, now, today, reminders, bookings, pass_vars>>

StoreBooking(user_id, data, day) ==
    /\ ops < MaxStoreOps
    /\ LET r == db_add_appointment(appointments, next_id, now, user_id, data,
                                   Some(VisitTime(day, 9)), Mo("MO1"))
       IN  /\ appointments' = r.T
           /\ next_id' = r.nid
           /\ Logged([op |-> "book", user_id |-> user_id, data |-> data, day |-> day,
                      ok |-> r.ok])
    /\ UNCHANGED <<visit_mo_unique, now, today, reminders, bookings, pass_vars>>

StoreCancel(appointment_id, user_id, cancelled_by, force) ==
    /\ ops < MaxStoreOps
    /\ LET r == cancel_appointment(appointments, now, appointment_id, user_id,
                                   cancelled_by, force)
       IN  /\ appointments' = r.T
           /\ Logged([op |-> "cancel", id |-> appointment_id, user_id |-> user_id,
                      cancelled_by |-> cancelled_by, force |-> force,
                      success |-> r.success])
    /\ UNCHANGED <<next_id, visit_mo_unique, now, today, reminders, bookings, pass_vars>>

StoreMark(appointment_ids) ==
    /\ ops < MaxStoreOps
    /\ LET r == mark_reminder_24h_sent(appointments, now, appointment_ids)
       IN  /\ appointments' = r.T
           /\ Logged([op |-> "mark", ids |-> appointment_ids, updated |-> r.updated])
    /\ UNCHANGED <<next_id, visit_mo_unique, now, today, reminders, bookings, pass_vars>>

\* time passes
Tick ==
    /\ now < MaxClock
    /\ now' = now + 1
    /\ UNCHANGED <<appointments, next_id, visit_mo_unique, today, reminders, bookings,
                   last_op, repeated, ops, pass_vars>>

InitStore ==
    /\ InitCommon
    /\ \E was_unique \in BOOLEAN, dropped \in BOOLEAN :
          visit_mo_unique = InitVisitMoIndex(was_unique, dropped)
    /\ reminders = [u \in UserIds |-> TRUE]

NextStore ==
    \/ \E u \in StoreUsers, b \in StoreBooks, d \in StoreDays :
          StoreAdd(u, AppointmentData(b, "D2"), d)
    \/ \E b \in {<<>>, B1}, d \in StoreDays : StoreBooking(1, BookingData(b, "D1"), d)
    \/ \E r \in appointments, u \in UserIds, c \in CancelCalls :
          StoreCancel(r.id, u, c.cancelled_by, c.force)
    \/ \E ids \in {{1}, {1, 2}} : StoreMark(ids)
    \/ Tick

SpecStore == InitStore /\ [][NextStore]_vars

\* the rows of T that carry the booking identifier book for user_id
RowsWithBook(T, user_id, book) ==
    {r \in T : r.user_id = user_id /\ r.book_id_mis = book}

\* C1: when add_appointment is called twice in a row with the same
\* registered user, the same non-empty booking identifier and the same
\* payload, and the first call succeeded, the second call succeeds with
\* inserted = false and the id that the first call returned, and exactly
\* one row holds the (user, identifier) pair afterwards.
C1_UpsertTwice ==
    [][ (/\ repeated'
         /\ ops' = ops + 1
         /\ last_op.res.success
         /\ Strip(last_op.data.Book_Id_Mis) # Null)
        => /\ last_op'.res.success
           /\ ~last_op'.res.inserted
           /\ last_op'.res.id = last_op.res.id
           /\ Cardinality(RowsWithBook(appointments', last_op.user_id,
                                       Strip(last_op.data.Book_Id_Mis))) = 1 ]_vars

\* a second identical upsert with a padded identifier has returned
C1_Witness ==
    /\ repeated
    /\ last_op.res.success
    /\ last_op.data.Book_Id_Mis = B1Padded
    /\ Cardinality(RowsWithBook(appointments, last_op.user_id, B1)) = 1

\* C2: in every reachable state of the table at most one row holds a given
\* (user id, non-null booking identifier) pair.
C2_OneRowPerBookId ==
    \A r1 \in appointments, r2 \in appointments :
        (r1.user_id = r2.user_id /\ r1.book_id_mis # Null
         /\ r1.book_id_mis = r2.book_id_mis) => r1 = r2

\* two rows without identifier coexist with a row that carries one, after
\* an upsert that hit the existing (user, identifier) row
C2_Witness ==
    /\ last_op.op = "add" /\ last_op.res.success /\ ~last_op.res.inserted
    /\ \E r1 \in appointments, r2 \in appointments :
          /\ r1.user_id = r2.user_id /\ r1.id # r2.id
          /\ r1.book_id_mis # Null /\ r2.book_id_mis = Null
          /\ r1.id = last_op.res.id[1]

\* C6: reminder_24h_sent_at is written at most once.  A value that is set
\* is never changed or reset by any operation; mark_reminder_24h_sent
\* changes exactly the rows it names whose field is null; and a mark of ids
\* that the previous operation already marked updates zero rows.
C6_ReminderWrittenOnce ==
    [][ /\ \A r \in appointments :
              r.reminder_24h_sent_at # Null =>
                 \E r2 \in appointments' :
                    r2.id = r.id /\ r2.reminder_24h_sent_at = r.reminder_24h_sent_at
        /\ (last_op'.op = "mark" /\ ops' = ops + 1) =>
              /\ last_op'.updated =
                    Cardinality({r \in appointments :
                                    r.id \in last_op'.ids /\ r.reminder_24h_sent_at = Null})
              /\ \A r \in appointments :
                    (r.id \notin last_op'.ids \/ r.reminder_24h_sent_at # Null)
                       => r \in appointments'
        /\ (last_op.op = "mark" /\ last_op'.op = "mark" /\ ops' = ops + 1
            /\ last_op'.ids \subseteq last_op.ids) => last_op'.updated = 0 ]_vars

\* a later mark of an appointment that was marked before has updated no row
\* and the earlier timestamp is still stored
C6_Witness ==
    /\ last_op.op = "mark" /\ last_op.updated = 0
    /\ \E r \in appointments :
          /\ r.id \in last_op.ids
          /\ r.reminder_24h_sent_at # Null
          /\ r.reminder_24h_sent_at[1] < now

\* the step just taken is a successful add_appointment that hit the
\* existing row old (it returned inserted = false and old's id)
UpsertHit(old) ==
    /\ last_op'.op = "add" /\ ops' = ops + 1
    /\ last_op'.res.success /\ ~last_op'.res.inserted
    /\ last_op'.res.id = Some(old.id)

\* C11: an upsert that hits a cancelled row of the same (user id, booking
\* identifier) leaves the row active with the cancellation timestamp and
\* the cancellation actor both null.
C11_ReactivationClearsMetadata ==
    [][ \A old \in appointments :
          (UpsertHit(old) /\ old.status = "cancelled")
          => \E r \in appointments' :
                /\ r.id = old.id
                /\ r.status = "active"
                /\ r.cancelled_at = Null
                /\ r.cancelled_by = Null ]_vars

\* the step just taken is an add_appointment that found old holding its
\* (user id, booking identifier) key and updated it
UpsertConflict(old) ==
    /\ UpsertHit(old)
    /\ old.user_id = last_op'.user_id
    /\ old.book_id_mis = Strip(last_op'.data.Book_Id_Mis)

RowAfter(old) == CHOOSE r \in appointments' : r.id = old.id

\* C12 as stated: on a conflict on (user id, booking identifier) every
\* field of the stored payload keeps its value, and the visit time and the
\* organization name, being non-null, do not change.
C12_MergeKeepsExisting ==
    [][ \A old \in appointments :
          UpsertConflict(old)
          => /\ \A k \in DOMAIN old.appointment_json :
                   RowAfter(old).appointment_json[k] = old.appointment_json[k]
             /\ old.external_visit_time # Null
                   => RowAfter(old).external_visit_time = old.external_visit_time
             /\ old.external_mo_name # Null
                   => RowAfter(old).external_mo_name = old.external_mo_name ]_vars

\* C12 amended: on a conflict on (user id, booking identifier) the stored
\* payload takes every field that the incoming payload carries and keeps
\* the fields that the incoming payload does not carry, and the visit time
\* and the organization name become the incoming ones.
C12_MergeIncomingWins ==
    [][ \A old \in appointments :
          UpsertConflict(old)
          => /\ DOMAIN RowAfter(old).appointment_json =
                   (DOMAIN old.appointment_json) \cup (DOMAIN last_op'.data)
             /\ \A k \in DOMAIN last_op'.data :
                   RowAfter(old).appointment_json[k] = last_op'.data[k]
             /\ \A k \in (DOMAIN old.appointment_json) \ (DOMAIN last_op'.data) :
                   RowAfter(old).appointment_json[k] = old.appointment_json[k]
             /\ RowAfter(old).external_visit_time = Some(VisitTime(last_op'.day, 9))
             /\ RowAfter(old).external_mo_name = Mo("MO1") ]_vars

\* an upsert has hit a row that the booking flow created with the same
\* identifier: the doctor is the incoming one, the Room of the booking
\* flow's payload is still there
C12_Witness ==
    /\ ~visit_mo_unique
    /\ last_op.op = "add" /\ last_op.res.success /\ ~last_op.res.inserted
    /\ \E r \in appointments :
          /\ Some(r.id) = last_op.res.id
          /\ "Room" \in DOMAIN r.appointment_json
          /\ r.appointment_json.doctor = last_op.data.doctor
          /\ r.external_visit_time = Some(VisitTime(last_op.day, 9))
          /\ r.created_at[1] < now

\* C10: when exactly one row holds the slot (user, visit time,
\* organization), that row has no booking identifier, and add_appointment
\* arrives for the same slot with an identifier that no row of the user
\* holds, the call succeeds with inserted = false and the slot afterwards
\* holds one row, carrying the new identifier.
C10_MergeIntoFallbackRow ==
    [][ (/\ last_op'.op = "add" /\ ops' = ops + 1
         /\ last_op'.user_id \in UserIds
         /\ Strip(last_op'.data.Book_Id_Mis) # Null
         /\ LET slot == SlotRows(appointments, last_op'.user_id,
                                 Some(VisitTime(last_op'.day, 9)), Mo("MO1"))
            IN  /\ Cardinality(slot) = 1
                /\ \A r \in slot : r.book_id_mis = Null
         /\ RowsWithBook(appointments, last_op'.user_id,
                         Strip(last_op'.data.Book_Id_Mis)) = {})
        => /\ last_op'.res.success
           /\ ~last_op'.res.inserted
           /\ LET after == SlotRows(appointments', last_op'.user_id,
                                    Some(VisitTime(last_op'.day, 9)), Mo("MO1"))
              IN  /\ Cardinality(after) = 1
                  /\ \A r \in after :
                        r.book_id_mis = Strip(last_op'.data.Book_Id_Mis) ]_vars


(***************************************************************************)
(* A single trigger, the daily job, together with the interactive flows:   *)
(* passes follow one another.                                              *)
(***************************************************************************)
SyncFeedRecords ==
    { FeedRecord("p1", B1, 1), FeedRecord("p1", B2, 1), FeedRecord("p1x", B1, 1),
      FeedRecord("p1", B1, 2) }

RECURSIVE SeqsUpTo(_, _)
SeqsUpTo(S, n) ==
    IF n = 0 THEN {<<>>}
    ELSE LET shorter == SeqsUpTo(S, n - 1)
         IN  shorter \cup {Append(q, x) : q \in shorter, x \in S}

SyncFeeds == SeqsUpTo(SyncFeedRecords, MaxFeed)

BookingBooks == {<<>>, B1}

BookingDays == {1, 2}

InitSync ==
    /\ InitCommon
    /\ \E was_unique \in BOOLEAN : visit_mo_unique = InitVisitMoIndex(was_unique, TRUE)
    /\ reminders = [u \in UserIds |-> TRUE]

NextSync ==
    \/ ScheduledSync("daily")
    \/ FetchFailed("daily")
    \/ \E feed \in SyncFeeds : ProcessFeed("daily", feed)
    \/ \E o \in {"sent", "skipped_time"} : SendOne("daily", o)
    \/ FinishPass("daily")
    \/ \E b \in BookingBooks, d \in BookingDays : Booking(1, b, d)

SpecSync == InitSync /\ [][NextSync]_vars

\* the step just taken is the parse-to-reconcile part of a full pass
FullPassProcessed ==
    /\ step.a # "ProcessFeed"
    /\ step'.a = "ProcessFeed"
    /\ step'.kind = "run_sync"

Tomorrow(r) ==
    r.external_visit_time # Null /\ r.external_visit_time[1].day = today + 1

\* the row with r's id is cancelled by the reconciliation in T
CancelledBySync(T, r) ==
    \E r2 \in T : /\ r2.id = r.id
                  /\ r2.status = "cancelled"
                  /\ r2.cancelled_by = Some("system_sync")

\* C3: after the parse-to-reconcile part of a pass whose fetch succeeded,
\* whatever the feed holds, every row that was active for tomorrow with a
\* booking identifier that no record of the feed carries is cancelled with
\* actor system_sync.
C3_MissingRowsCancelled ==
    [][ FullPassProcessed =>
          \A r \in appointments :
             (/\ r.status = "active" /\ Tomorrow(r)
              /\ r.book_id_mis # Null
              /\ \A i \in DOMAIN step'.feed : Strip(step'.feed[i].book) # r.book_id_mis)
             => CancelledBySync(appointments', r) ]_vars

\* the feed holds a record of r's patient (same name and birth date as r's
\* user) for r's visit time that carries r's booking identifier
ReportedInFeed(feed, r) ==
    \E i \in DOMAIN feed, u \in users :
       /\ u.user_id = r.user_id
       /\ match_fio(u, feed[i].fio)
       /\ u.birth_date = DbDateFormat(feed[i].birth_date)
       /\ feed[i].visit_time = r.external_visit_time
       /\ r.book_id_mis # Null
       /\ Strip(feed[i].book) = r.book_id_mis

\* C4: no pass cancels (actor system_sync) a row that was active while the
\* feed fetched by that pass holds a record with the row's booking
\* identifier.
C4_ReportedRowsKept ==
    [][ FullPassProcessed =>
          \A r \in appointments :
             (r.status = "active" /\ ReportedInFeed(step'.feed, r))
             => ~CancelledBySync(appointments', r) ]_vars

\* C5: the reconciliation step changes no active row whose visit date is
\* not tomorrow: every such row of the table as the persist stage left it
\* is in the table after the reconciliation, unchanged.
C5_OtherDatesUntouched ==
    [][ FullPassProcessed =>
          \A r \in step'.mid :
             (r.status = "active" /\ ~Tomorrow(r)) => r \in appointments' ]_vars

\* a reconciliation has cancelled a row of tomorrow while an active row of
\* another date is still there as it was
C5_Witness ==
    /\ step.a = "ProcessFeed" /\ step.kind = "run_sync" /\ step.reconciled
    /\ \E r \in step.mid : r.status = "active" /\ ~Tomorrow(r) /\ r \in appointments
    /\ \E r \in step.mid : r.status = "active" /\ CancelledBySync(appointments, r)


(***************************************************************************)
(* All triggers of one process: the scheduler's jobs and the admin         *)
(* commands, interleaved at their awaits.                                  *)
(***************************************************************************)
TriggerFeeds == {<< FeedRecord("p1", B1, 1) >>}

InitTriggers ==
    /\ InitCommon
    /\ \E was_unique \in BOOLEAN : visit_mo_unique = InitVisitMoIndex(was_unique, TRUE)
    /\ reminders = [u \in UserIds |-> TRUE]

Next ==
    \/ \E p \in SchedulerTasks : ScheduledSync(p)
    \/ \E h \in AdminTasks : handle_sync_command(h)
    \/ \E h \in AdminTasks, has_path \in BOOLEAN : handle_mock_command(h, has_path)
    \/ \E h \in AdminTasks : handler_finally(h)
    \/ \E p \in Tasks : FetchFailed(p)
    \/ \E p \in Tasks, feed \in TriggerFeeds : ProcessFeed(p, feed)
    \/ \E p \in Tasks, o \in {"sent", "denied"} : SendOne(p, o)
    \/ \E p \in Tasks : FinishPass(p)

Spec == InitTriggers /\ [][Next]_vars

\* the tasks that are inside run_sync
FullPasses == {p \in Tasks : PassRunning(p) /\ tasks[p].kind = "run_sync"}

\* the admin handlers that are inside a pass they started
AdminPasses == {h \in AdminTasks : PassRunning(h)}

\* C7: over any number of passes, at most one delivered notification
\* covers an appointment row.
C7_OneReminderPerRow == \A i \in DOMAIN notified : notified[i] <= 1

\* C8: at most one run_sync is in progress at any time, whichever of the
\* daily job, the manual job and the admin command started it.
C8_OnePassAtATime == Cardinality(FullPasses) <= 1

\* C9: while a pass started by an admin command is in progress the overlap
\* flag is set, so that every admin request arriving meanwhile gets the
\* wait message and starts no pass: no second admin pass runs beside it.
C9_FlagHeldDuringPass ==
    /\ AdminPasses # {} => is_syncing
    /\ Cardinality(AdminPasses) <= 1



(***************************************************************************)
(* The daily pass with a user who may have switched the reminders off:     *)
(* user 1 has reminders on or off, uses the booking flow and appears in    *)
(* the feed, once with a phone that is not the one on file.                *)
(***************************************************************************)
PassFeedRecords ==
    { FeedRecord("p1", B1, 1),
      FeedRecord("p1", B2, 1),
      FeedRecord("p1x", B1, 1) }

PassFeeds == SeqsUpTo(PassFeedRecords, MaxFeed)

\* the feeds of the passes in which a stage raises
FailedFeeds == {<< FeedRecord("p1", B1, 1) >>}

InitPass ==
    /\ InitCommon
    /\ visit_mo_unique = InitVisitMoIndex(FALSE, TRUE)
    /\ \E on \in BOOLEAN : reminders = [u \in UserIds |-> u # 1 \/ on]

NextPass ==
    \/ ScheduledSync("daily")
    \/ FetchFailed("daily")
    \/ \E feed \in PassFeeds : ProcessFeed("daily", feed)
    \/ \E o \in {"sent", "skipped_time"} : SendOne("daily", o)
    \/ FinishPass("daily")
    \/ \E b \in BookingBooks : Booking(1, b, 1)
    \/ \E feed \in FailedFeeds, stage \in FeedStages, k \in 0..MaxFeed,
          exc \in StageExceptions : FeedStageFailed("daily", feed, stage, k, exc)
    \/ \E exc \in StageExceptions : NotificationFailed("daily", exc)
    \/ \E exc \in StageExceptions : MarkingFailed("daily", exc)

SpecPass == InitPass /\ [][NextPass]_vars

\* the records that the pass over feed matches to a user
MatchedOf(feed) == MatchedAt(feed, today)

\* the rows of T under the keys of the matched record m: its user with its
\* booking identifier, or its user with its visit time and organization
\* and no identifier
RecordRows(T, m) ==
    {r \in T :
        /\ r.user_id = m.user_id
        /\ \/ r.book_id_mis = Strip(m.rec.book)
           \/ /\ r.book_id_mis = Null
              /\ r.external_visit_time = m.rec.visit_time
              /\ r.external_mo_name = Mo(m.rec.mo_name)}

OptedOut(matched) == {i \in DOMAIN matched : ~reminders[matched[i].user_id]}

NotPersisted(matched) ==
    /\ \A i \in OptedOut(matched) :
          /\ RecordRows(step'.mid, matched[i]) = RecordRows(appointments, matched[i])
          /\ \A r2 \in RecordRows(appointments', matched[i]) :
                \E r \in appointments :
                    r.id = r2.id /\ (r2.status = "active" => r2 = r)
          /\ \A j \in DOMAIN tasks'[step'.task].queue :
                tasks'[step'.task].queue[j].user_id # matched[i].user_id
    /\ step'.result.summary.patients_matched = Len(matched)
    /\ step'.result.summary.new_appointments_saved
          <= Len(matched) - Cardinality(OptedOut(matched))

\* C13: for every matched feed record whose user has reminders disabled the
\* pass performs no upsert: the rows under the record's keys are the same
\* after the persistence stage as before the pass, none is created or made
\* active by the pass, no notification is queued for the user, and the
\* summary counts the record as matched and not as saved.
C13_OptedOutNotPersisted ==
    [][ (step.a # "ProcessFeed" /\ step'.a = "ProcessFeed")
        => NotPersisted(MatchedOf(step'.feed)) ]_vars

\* a pass has just matched a record of a user with reminders disabled whose
\* row is cancelled, and reported it as matched and nothing as saved
C13_Witness ==
    /\ step.a = "ProcessFeed"
    /\ step.result.summary.patients_matched >= 1
    /\ step.result.summary.new_appointments_saved = 0
    /\ \E i \in OptedOut(MatchedOf(step.feed)) :
          \E r \in RecordRows(appointments, MatchedOf(step.feed)[i]) :
              r.status = "cancelled" /\ r \in step.mid


\* the pass has stored the matched record m as the only row of the table
\* and reports one record matched and one row saved
OneRowSaved(m) ==
    /\ \E r \in appointments' :
          /\ appointments' = {r}
          /\ r.user_id = m.user_id
          /\ r.status = "active"
          /\ r.book_id_mis = m.rec.book
    /\ step'.result.success
    /\ step'.result.summary.patients_matched = 1
    /\ step'.result.summary.new_appointments_saved = 1
    /\ ~step'.returned => tasks'[step'.task].summary = step'.result.summary

SingleRecordPass(matched) ==
    /\ step.a # "ProcessFeed" /\ step'.a = "ProcessFeed"
    /\ appointments = {}
    /\ Len(step'.feed) = 1
    /\ Len(matched) = 1
    /\ reminders[matched[1].user_id]

\* C14: a pass over a feed of exactly one valid record for tomorrow that
\* resolves to a user with reminders enabled, the table being empty, leaves
\* exactly one row, of that user, active, with the record's booking
\* identifier, and its summary says matched 1, saved 1; the result returned
\* after the notification stage is a success result with the same summary.
C14_SingleRecordPass ==
    [][ /\ SingleRecordPass(MatchedOf(step'.feed))
            => OneRowSaved(MatchedOf(step'.feed)[1])
        /\ (step.a # "FinishPass" /\ step'.a = "FinishPass")
            => /\ step'.result = create_success_result(tasks[step'.task].summary)
               /\ \A r \in appointments :
                     \E r2 \in appointments' :
                         /\ r2.id = r.id /\ r2.status = r.status
                         /\ r2.book_id_mis = r.book_id_mis ]_vars

\* a pass has ended after its notification stage with one row in the table,
\* active and notified, reporting one record matched and one row saved
C14_Witness ==
    /\ step.a = "FinishPass"
    /\ step.result.success
    /\ step.result.summary.patients_matched = 1
    /\ step.result.summary.new_appointments_saved = 1
    /\ \E r \in appointments :
          /\ appointments = {r}
          /\ r.status = "active"
          /\ r.book_id_mis = B1
          /\ r.reminder_24h_sent_at # Null

\* C15: when the fetch fails the pass ends with a result whose success flag
\* is false and that carries an error string; the step changes no row of
\* the table (none created, modified, cancelled or marked as reminded),
\* sends nothing and leaves nothing queued to send.
C15_FetchFailureNoEffect ==
    [][ (step.a # "FetchFailed" /\ step'.a = "FetchFailed")
        => /\ ~step'.result.success
           /\ step'.result.error # Null
           /\ appointments' = appointments
           /\ next_id' = next_id
           /\ notified' = notified
           /\ tasks'[step'.task].pc = AfterPass(step'.task)
           /\ tasks'[step'.task].queue = <<>> ]_vars

\* a pass has ended on a failed fetch while the table holds an active row
\* for tomorrow whose reminder was not sent
C15_Witness ==
    /\ step.a = "FetchFailed"
    /\ ~step.result.success
    /\ \E r \in appointments :
          /\ r.status = "active"
          /\ Tomorrow(r)
          /\ r.reminder_24h_sent_at = Null


\* C16: run_sync never propagates an exception: whatever stage raises, the
\* invocation ends by returning a result object that has a success flag,
\* and the caller is where it is after any pass (the scheduler's job is
\* idle again, so that the next scheduled run can start).
C16_NoExceptionPropagates ==
    [][ (step.a # "StageFailed" /\ step'.a = "StageFailed")
        => /\ ~step'.propagated
           /\ step'.result # Null
           /\ step'.result[1].success \in BOOLEAN
           /\ tasks'[step'.task] = [IdleTask EXCEPT !.pc = AfterPass(step'.task)]
           /\ step'.task \in SchedulerTasks => tasks'[step'.task].pc = "idle" ]_vars

\* the reconciliation stage of a pass has raised after rows were stored,
\* and the pass has returned an error result
C16_Witness ==
    /\ step.a = "StageFailed"
    /\ step.stage = "reconciliation"
    /\ step.result # Null /\ ~step.result[1].success
    /\ appointments # {}
    /\ tasks["daily"].pc = "idle"


(***************************************************************************)
(* The Notifier alone: batches of notifications, each user's               *)
(* send_notification at some hour of the local clock, each attempt of      *)
(* _send_message_with_retry with the response of the transport.            *)
(*   idle     no batch in progress                                         *)
(*   next     in send_batch_notifications, before the next user            *)
(*   attempt  in _send_message_with_retry, before an iteration of the loop *)
(***************************************************************************)
BatchUsers == {<<1>>, <<1, 2>>, <<2, 1>>}

HoursOfDay == 0..23

\* the start of a call of send_notification
NewCall(n) == [n EXCEPT !.attempt = 0, !.responses = <<>>, !.waited = <<>>]

\* an iteration of the loop: the pause of the schedule, then the send
Sending(n, result) ==
    [n EXCEPT !.waited = IF Schedule[n.attempt + 1] > 0
                         THEN Append(@, Schedule[n.attempt + 1]) ELSE @,
              !.responses = Append(@, result)]

\* Notifier.send_batch_notifications up to its first await
send_batch_notifications(user_ids) ==
    /\ notifier.pc = "idle"
    /\ notifier.batches < MaxBatches
    /\ notifier' = [NewCall(notifier) EXCEPT !.pc = "next", !.batches = @ + 1,
                                             !.queue = user_ids, !.details = <<>>,
                                             !.results = Null]
    /\ step' = [a |-> "send_batch_notifications"]
    /\ UNCHANGED <<store_vars, tasks, is_syncing, notified, fetcher, call>>

\* send_notification up to the first await of _send_message_with_retry or
\* to its return: the time gate, the message, the chat to send to.
\* (before_send_chat_uncounted is the faulty variant that returns error
\* for a user without chat and leaves error_count alone.)
before_send_chat_uncounted(n, hour, has_message, has_chat) ==
    IF ~is_within_allowed_hours(hour) THEN Returned(NewCall(n), "skipped_time")
    ELSE IF ~has_message THEN Returned(NewCall(n), "error")
    ELSE IF ~has_chat
    THEN [Returned(NewCall(n), "error") EXCEPT !.error_count = n.error_count]
    ELSE [NewCall(n) EXCEPT !.pc = "attempt"]
before_send(n, hour, has_message, has_chat) ==
    IF ~is_within_allowed_hours(hour) THEN Returned(NewCall(n), "skipped_time")
    ELSE IF ~has_message THEN Returned(NewCall(n), "error")
    ELSE IF ~has_chat THEN Returned(NewCall(n), "error")
    ELSE [NewCall(n) EXCEPT !.pc = "attempt"]

\* Notifier.send_notification for the next user, up to the first await of
\* _send_message_with_retry or to its return; has_message tells whether
\* _format_notification_message returns a text, has_chat whether
\* get_last_chat_id finds a chat
send_notification(hour, has_message, has_chat) ==
    /\ notifier.pc = "next"
    /\ notifier.queue # <<>>
    /\ notifier' = before_send(notifier, hour, has_message, has_chat)
    /\ step' = [a |-> "send_notification", user_id |-> Head(notifier.queue),
                hour |-> hour]
    /\ UNCHANGED <<store_vars, tasks, is_syncing, notified, fetcher, call>>

\* one iteration of the loop of _send_message_with_retry, result being the
\* response of the transport, and the return of send_notification when the
\* loop ends
send_message(result) ==
    /\ notifier.pc = "attempt"
    /\ \E reason \in {loop_outcome(notifier.attempt,
                                   after_send(notifier.attempt, result))} :
          /\ notifier' = IF reason = "continue"
                         THEN [Sending(notifier, result) EXCEPT !.attempt = @ + 1]
                         ELSE Returned(Sending(notifier, result),
                                       notification_status(reason))
          /\ step' = [a |-> "send_message", user_id |-> Head(notifier.queue),
                      result |-> result, reason |-> reason]
    /\ UNCHANGED <<store_vars, tasks, is_syncing, notified, fetcher, call>>

\* send_notification: an exception is raised while the message is being
\* sent, and the handler of the try block returns error
send_notification_raised ==
    /\ notifier.pc = "attempt"
    /\ notifier' = Returned(notifier, "error")
    /\ step' = [a |-> "send_notification_raised", user_id |-> Head(notifier.queue)]
    /\ UNCHANGED <<store_vars, tasks, is_syncing, notified, fetcher, call>>

\* Notifier.get_stats
get_stats(n) ==
    [sent |-> n.sent_count, skipped |-> n.skipped_count, errors |-> n.error_count,
     denied |-> n.denied_count,
     total_attempted |-> n.sent_count + n.skipped_count + n.error_count
                             + n.denied_count]

\* the end of send_batch_notifications: the summary takes the counters
batch_done ==
    /\ notifier.pc = "next"
    /\ notifier.queue = <<>>
    /\ notifier' = [notifier EXCEPT
                      !.pc = "idle",
                      !.results = Some([total_users |-> Len(notifier.details),
                                        sent |-> notifier.sent_count,
                                        skipped |-> notifier.skipped_count,
                                        errors |-> notifier.error_count,
                                        denied |-> notifier.denied_count])]
    /\ step' = [a |-> "batch_done"]
    /\ UNCHANGED <<store_vars, tasks, is_syncing, notified, fetcher, call>>

InitNotify ==
    /\ InitCommon
    /\ visit_mo_unique = InitVisitMoIndex(FALSE, TRUE)
    /\ reminders = [u \in UserIds |-> TRUE]

NextNotify ==
    \/ \E user_ids \in BatchUsers : send_batch_notifications(user_ids)
    \/ \E hour \in HoursOfDay, has_message, has_chat \in BOOLEAN :
          send_notification(hour, has_message, has_chat)
    \/ \E result \in TransportResponses : send_message(result)
    \/ send_notification_raised
    \/ batch_done

SpecNotify == InitNotify /\ [][NextNotify]_vars

\* the status written to the details by the call that returned last
LastStatus(n) == n.details[Len(n.details)].status

\* the step just taken is a step of the named operation of the Notifier
NotifierStep(name) == step'.a = name /\ notifier' # notifier

C18_AtMostFourAttempts ==
    /\ Len(notifier.responses) <= 4
    /\ notifier.waited = SubSeq(<<2, 4, 8>>, 1, Len(notifier.waited))
    /\ Len(notifier.responses) >= 1
          => Len(notifier.waited) = Len(notifier.responses) - 1
    /\ \A i \in 1..(Len(notifier.responses) - 1) : notifier.responses[i] = RateLimited
    /\ notifier.pc = "attempt"
          => /\ Len(notifier.responses) < 4
             /\ \A i \in DOMAIN notifier.responses : notifier.responses[i] = RateLimited

\* a delivery has ended with its fourth attempt, after pauses of 2, 4 and 8
C18_Witness ==
    /\ notifier.pc = "next"
    /\ Len(notifier.responses) = 4
    /\ notifier.waited = <<2, 4, 8>>
    /\ notifier.responses[4] = Sent

\* the call that returned last made every attempt of the schedule and
\* received a rate-limit response each time
AllRateLimited(n) ==
    /\ n.pc # "attempt"
    /\ Len(n.responses) = Len(Schedule)
    /\ \A i \in DOMAIN n.responses : n.responses[i] = RateLimited

\* C19 as stated: when every attempt received a rate-limit response until
\* the schedule was exhausted, send_notification returns the reason
\* retry_failed and the details of the batch record retry_failed.
C19_RetryFailedRecorded ==
    AllRateLimited(notifier) => LastStatus(notifier) = "retry_failed"

\* C19 amended: when every attempt received a rate-limit response until the
\* schedule was exhausted, the delivery ends with the reason retry_failed,
\* send_notification returns the reason error, and the details of the batch
\* record error for that user.
C19_RetryFailedRecordedAsError ==
    AllRateLimited(notifier)
    => /\ LastStatus(notifier) = "error"
       /\ notifier.error_count >= 1
       /\ step.a = "send_message" => step.reason = "retry_failed"

\* a delivery has just ended after four rate-limit responses
C19_Witness ==
    /\ AllRateLimited(notifier)
    /\ step.a = "send_message"
    /\ step.reason = "retry_failed"
    /\ notifier.details[Len(notifier.details)] =
          [user_id |-> step.user_id, status |-> "error"]

\* C20: an attempt that receives a chat-unavailable response (403 with
\* chat.denied or error.dialog.suspended) is the last attempt for the
\* message: it is the one attempt made since the last rate-limit retry, the
\* outcome is recorded as denied, the denied counter grows by one and the
\* error counter does not change, and the batch is before its next user.
C20_DeniedNotRetried ==
    [][ (NotifierStep("send_message") /\ step'.result \in ChatUnavailable)
        => /\ notifier'.pc = "next"
           /\ notifier'.responses = Append(notifier.responses, step'.result)
           /\ \A i \in DOMAIN notifier.responses : notifier.responses[i] = RateLimited
           /\ notifier'.details =
                 Append(notifier.details,
                        [user_id |-> Head(notifier.queue), status |-> "denied"])
           /\ notifier'.denied_count = notifier.denied_count + 1
           /\ notifier'.error_count = notifier.error_count
           /\ notifier'.sent_count = notifier.sent_count
           /\ notifier'.queue = Tail(notifier.queue) ]_vars

\* a retry after a rate-limit response has received a chat-unavailable
\* response, and the batch has another user to go on with
C20_Witness ==
    /\ step.a = "send_message"
    /\ step.result \in ChatUnavailable
    /\ Len(notifier.responses) >= 2
    /\ LastStatus(notifier) = "denied"
    /\ notifier.denied_count = 1
    /\ notifier.pc = "next"
    /\ notifier.queue # <<>>


(***************************************************************************)
(* The Fetcher alone: fetch_data with retries, each attempt with the       *)
(* outcome of _fetch_single.                                               *)
(*   idle      no fetch in progress                                        *)
(*   attempt   in _fetch_with_retry, before an attempt                     *)
(*   sleeping  in _fetch_with_retry, in asyncio.sleep(retry_delay)         *)
(***************************************************************************)
RetryConfigs == {1, 3, default_max_retries}

\* Fetcher.fetch_data up to the first attempt of _fetch_with_retry
fetch_data ==
    /\ fetcher.pc = "idle"
    /\ fetcher.calls < MaxFetches
    /\ fetcher' = [fetcher EXCEPT !.pc = "attempt", !.calls = @ + 1,
                                  !.attempt = 0, !.failures = 0, !.sleeps = 0,
                                  !.waited = 0, !.result = Null]
    /\ step' = [a |-> "fetch_data"]
    /\ UNCHANGED <<store_vars, tasks, is_syncing, notified, notifier, call>>

\* the fetcher after the attempt number attempt with its outcome
Attempted(f, attempt, outcome, next) ==
    [f EXCEPT !.attempt = attempt,
              !.failures = IF outcome = "ok" THEN @ ELSE @ + 1,
              !.pc = IF next = "sleep" THEN "sleeping" ELSE "idle",
              !.result = CASE next = "return_data" -> Some("data")
                           [] next = "loop_end" -> Some("None")
                           [] OTHER -> Null]

\* one iteration of the loop of _fetch_with_retry up to its sleep or to the
\* return of the call
fetch_single(outcome) ==
    /\ fetcher.pc = "attempt"
    /\ fetcher' = Attempted(fetcher, fetcher.attempt + 1, outcome,
                            after_fetch(fetcher.attempt + 1, fetcher.max_retries,
                                        outcome))
    /\ step' = [a |-> "fetch_single", outcome |-> outcome]
    /\ UNCHANGED <<store_vars, tasks, is_syncing, notified, notifier, call>>

\* the end of asyncio.sleep(retry_delay): the loop goes on to its next
\* attempt, or is over and the call returns None
retry_delay_over ==
    /\ fetcher.pc = "sleeping"
    /\ fetcher' = [fetcher EXCEPT
                     !.sleeps = @ + 1,
                     !.waited = @ + fetcher.retry_delay,
                     !.pc = IF fetcher.attempt < fetcher.max_retries
                            THEN "attempt" ELSE "idle",
                     !.result = IF fetcher.attempt < fetcher.max_retries
                                THEN Null ELSE Some("None")]
    /\ step' = [a |-> "retry_delay_over"]
    /\ UNCHANGED <<store_vars, tasks, is_syncing, notified, notifier, call>>

InitFetch ==
    /\ appointments = {}
    /\ next_id = 1
    /\ now = 0
    /\ today = 0
    /\ bookings = 0
    /\ last_op = NoOp
    /\ repeated = FALSE
    /\ ops = 0
    /\ tasks = [p \in Tasks |-> IdleTask]
    /\ is_syncing = FALSE
    /\ step = NoStep
    /\ notified = [i \in {} |-> 0]
    /\ notifier = IdleNotifier
    /\ call = NoCall
    /\ visit_mo_unique = InitVisitMoIndex(FALSE, TRUE)
    /\ reminders = [u \in UserIds |-> TRUE]
    /\ \E max_retries \in RetryConfigs : fetcher = IdleFetcher(max_retries)

NextFetch ==
    \/ fetch_data
    \/ \E outcome \in FetchOutcomes : fetch_single(outcome)
    \/ retry_delay_over

SpecFetch == InitFetch /\ [][NextFetch]_vars

\* C21: the retrying fetch makes at most max_retries attempts; no attempt
\* follows a successful one, and the data returned are those of the first
\* successful attempt; the retry delay is waited between attempts only,
\* never after the last one; and None is returned only when max_retries
\* attempts have failed.
C21_FetchRetryBounded ==
    /\ fetcher.attempt <= fetcher.max_retries
    /\ fetcher.failures >= fetcher.attempt - 1
    /\ fetcher.pc \in {"attempt", "sleeping"} => fetcher.failures = fetcher.attempt
    /\ fetcher.pc = "attempt" => fetcher.sleeps = fetcher.attempt
    /\ fetcher.pc = "sleeping" => fetcher.sleeps = fetcher.attempt - 1
    /\ fetcher.waited = fetcher.sleeps * fetcher.retry_delay
    /\ fetcher.result # Null
          => /\ fetcher.pc = "idle"
             /\ fetcher.sleeps = fetcher.attempt - 1
    /\ fetcher.result = Some("data") => fetcher.failures = fetcher.attempt - 1
    /\ fetcher.result = Some("None")
          => /\ fetcher.attempt = fetcher.max_retries
             /\ fetcher.failures = fetcher.max_retries

\* a fetch with the default of 10 attempts has failed 10 times and has
\* returned None after 9 delays
C21_Witness ==
    /\ fetcher.max_retries = 10
    /\ fetcher.result = Some("None")
    /\ fetcher.attempt = 10
    /\ fetcher.sleeps = 9


(***************************************************************************)
(* The Matcher alone: find_user_by_patient_data applied to a record over a *)
(* directory of users, some with the same birth date, the same name in     *)
(* another order or case and the same phone written with or without +.     *)
(***************************************************************************)
DirectoryUsers ==
    { [user_id |-> 1, fio |-> <<"ivanov", "ivan">>, phone |-> <<"+", "7", "1">>,
       birth_date |-> <<1, 5, 1980>>],
      [user_id |-> 2, fio |-> <<"IVAN", "IVANOV">>, phone |-> <<"7", "1">>,
       birth_date |-> <<1, 5, 1980>>],
      [user_id |-> 3, fio |-> <<"IVAN", "IVANOV">>, phone |-> <<"7", "2">>,
       birth_date |-> <<1, 5, 1980>>],
      [user_id |-> 4, fio |-> <<"IVANOV", "IVAN">>, phone |-> <<"+", "7", "1">>,
       birth_date |-> <<2, 6, 1990>>] }

\* the directories: sequences of distinct users
Directories ==
    {d \in SeqsUpTo(DirectoryUsers, MaxDirectory) :
        \A i, j \in DOMAIN d : i # j => d[i].user_id # d[j].user_id}

MatchRecords ==
    { [fio |-> f, phones |-> ph, birth_date |-> b] :
        f \in { <<"IVAN", "IVANOV">>, <<"IVANOV", "IVAN">>,
                <<"IVAN", "IVAN", "IVANOV">>, <<"PETR", "IVANOV">> },
        ph \in { << <<"+", "7", "1">> >>, << <<"7", "3">>, <<"7", "1">> >>,
                 << <<"7", "3">> >> },
        b \in { <<1980, 5, 1>>, <<1990, 6, 2>> } }

Match(directory, rec) ==
    /\ call' = [op |-> "match", directory |-> directory, rec |-> rec,
                res |-> find_user_in(directory, rec)]
    /\ UNCHANGED <<store_vars, tasks, is_syncing, step, notified, notifier, fetcher>>

InitMatch ==
    /\ InitCommon
    /\ visit_mo_unique = InitVisitMoIndex(FALSE, TRUE)
    /\ reminders = [u \in UserIds |-> TRUE]

NextMatch == \E directory \in Directories, rec \in MatchRecords : Match(directory, rec)

SpecMatch == InitMatch /\ [][NextMatch]_vars

\* the stored phone equals the phone p, with or without a leading +
SamePhone(stored, p) ==
    stored = p \/ stored = <<"+">> \o p \/ <<"+">> \o stored = p

TokenSet(tokens) == {tokens[i] : i \in DOMAIN tokens}

\* the two sequences hold the same tokens the same number of times
SameTokens(a, b) ==
    /\ Len(a) = Len(b)
    /\ \E f \in [DOMAIN a -> DOMAIN b] :
          /\ \A i, j \in DOMAIN a : i # j => f[i] # f[j]
          /\ \A i \in DOMAIN a : a[i] = b[f[i]]

\* the user u qualifies for the record by birth date, by name (the sets of
\* tokens are equal) and by phone
QualifiesBySet(u, rec) ==
    /\ u.birth_date = <<rec.birth_date[3], rec.birth_date[2], rec.birth_date[1]>>
    /\ u.fio # <<>>
    /\ TokenSet(UpperTokens(u.fio)) = TokenSet(rec.fio)
    /\ \E i \in DOMAIN rec.phones : SamePhone(u.phone, rec.phones[i])

\* the same with the names holding the same tokens the same number of times
QualifiesByTokens(u, rec) ==
    /\ u.birth_date = <<rec.birth_date[3], rec.birth_date[2], rec.birth_date[1]>>
    /\ SameTokens(UpperTokens(u.fio), rec.fio)
    /\ \E i \in DOMAIN rec.phones : SamePhone(u.phone, rec.phones[i])

\* C22 as stated: the matcher returns the first user of the directory that
\* has the record's birth date, a name whose set of tokens is the record's
\* set of tokens and a phone among the record's phones (with or without a
\* leading +), and none when there is no such user.
C22_MatchByTokenSet ==
    call.op = "match"
    => /\ call.res = Null
            <=> ~\E i \in DOMAIN call.directory :
                    QualifiesBySet(call.directory[i], call.rec)
       /\ \A i \in DOMAIN call.directory :
             (/\ QualifiesBySet(call.directory[i], call.rec)
              /\ \A j \in 1..(i - 1) : ~QualifiesBySet(call.directory[j], call.rec))
             => call.res = Some(call.directory[i].user_id)

\* C22 amended: the matcher returns the first user of the directory that
\* has the record's birth date, a name that holds the record's tokens the
\* same number of times each in any order, and a phone among the record's
\* phones (with or without a leading +), and none when there is no such
\* user.
C22_MatchByTokens ==
    call.op = "match"
    => /\ call.res = Null
            <=> ~\E i \in DOMAIN call.directory :
                    QualifiesByTokens(call.directory[i], call.rec)
       /\ \A i \in DOMAIN call.directory :
             (/\ QualifiesByTokens(call.directory[i], call.rec)
              /\ \A j \in 1..(i - 1) : ~QualifiesByTokens(call.directory[j], call.rec))
             => call.res = Some(call.directory[i].user_id)

\* two users of the directory qualify, the second one first in the
\* directory, and the matcher has returned it
C22_Witness ==
    /\ call.op = "match"
    /\ Len(call.directory) = 2
    /\ call.directory[1].user_id = 2
    /\ call.directory[2].user_id = 1
    /\ QualifiesByTokens(call.directory[1], call.rec)
    /\ QualifiesByTokens(call.directory[2], call.rec)
    /\ call.res = Some(2)


(***************************************************************************)
(* AppointmentsDatabase.cleanup_old_appointments: DELETE ... WHERE         *)
(* external_visit_time < now - days_to_keep days.  Times are in hours      *)
(* since the start of day 0; a NULL visit time never satisfies the         *)
(* comparison.                                                             *)
(***************************************************************************)
HoursPerDay == 24

VisitHour(v) == HoursPerDay * v.day + v.slot

\* (cleanup_old_appointments_past is the faulty variant whose cutoff is the
\* current time.)
cleanup_old_appointments_past(T, t, days_to_keep) ==
    LET hit == {r \in T : /\ r.external_visit_time # Null
                          /\ VisitHour(r.external_visit_time[1]) < t}
    IN  [T |-> T \ hit, deleted |-> Cardinality(hit)]
cleanup_old_appointments(T, t, days_to_keep) ==
    LET cutoff_date == t - HoursPerDay * days_to_keep
        hit == {r \in T : /\ r.external_visit_time # Null
                          /\ VisitHour(r.external_visit_time[1]) < cutoff_date}
    IN  [T |-> T \ hit, deleted |-> Cardinality(hit)]

(***************************************************************************)
(* UserDatabase._dedupe_appointments_by_book_id_mis, run when the program  *)
(* starts: of the rows that share (user_id, book_id_mis) the newest is     *)
(* kept with the merged payloads and the others are deleted.  The payloads *)
(* of the model carry no date and no organization key, so the COALESCE of  *)
(* the update keeps both columns.                                          *)
(***************************************************************************)
Truthy(k, v) == IF k = "Book_Id_Mis" THEN v # <<>> ELSE TRUE

deep_merge_keep_truthy(base, incoming) ==
    [k \in DOMAIN base \cup DOMAIN incoming |->
        IF k \in DOMAIN base /\ (Truthy(k, base[k]) \/ k \notin DOMAIN incoming)
        THEN base[k] ELSE incoming[k]]

\* ORDER BY created_at DESC NULLS LAST, id DESC
Newest(rows) ==
    CHOOSE r \in rows : \A o \in rows :
        \/ o.id = r.id
        \/ (r.created_at # Null /\ o.created_at = Null)
        \/ (r.created_at # Null /\ o.created_at # Null
               /\ o.created_at[1] < r.created_at[1])
        \/ (r.created_at = o.created_at /\ o.id < r.id)

RECURSIVE MergedJson(_, _)
MergedJson(merged, rows) ==
    IF rows = {} THEN merged
    ELSE MergedJson(deep_merge_keep_truthy(merged, Newest(rows).appointment_json),
                    rows \ {Newest(rows)})

DuplicateGroups(T) ==
    {g \in {{o \in T : o.user_id = r.user_id /\ o.book_id_mis = r.book_id_mis} :
                r \in {x \in T : x.book_id_mis # Null}} : Cardinality(g) > 1}

RECURSIVE dedupe_groups(_, _)
dedupe_groups(T, groups) ==
    IF groups = {} THEN T
    ELSE LET g == CHOOSE x \in groups : TRUE
             keep == Newest(g)
             merged == [MergedJson([k \in {} |-> <<>>], g)
                            EXCEPT !.Book_Id_Mis = keep.book_id_mis]
         IN  dedupe_groups((T \ g) \cup {[keep EXCEPT !.appointment_json = merged]},
                           groups \ {g})

dedupe_appointments_by_book_id_mis(T) == dedupe_groups(T, DuplicateGroups(T))

(***************************************************************************)
(* UserDatabase._migrate_appointments_book_id_mis, run when the program    *)
(* starts on a table that has its constraint UNIQUE (user_id,              *)
(* book_id_mis): blank identifiers become NULL, a NULL identifier is       *)
(* filled from the payload, and the duplicates are removed.  A backfill    *)
(* that violates the constraint is rejected and ends the migration.        *)
(***************************************************************************)
Backfilled(T) ==
    {IF r.book_id_mis = Null /\ "Book_Id_Mis" \in DOMAIN r.appointment_json
        /\ Strip(r.appointment_json.Book_Id_Mis) # <<>>
     THEN [r EXCEPT !.book_id_mis = r.appointment_json.Book_Id_Mis] ELSE r : r \in T}

migrate_appointments_book_id_mis(T) ==
    IF DuplicateGroups(Backfilled(T)) # {} THEN T
    ELSE dedupe_appointments_by_book_id_mis(Backfilled(T))

(***************************************************************************)
(* The store while rows age: the operations of the pipeline and of the     *)
(* cancellation flows, the retention job and the start of the program,     *)
(* over several days.  The clock stands at midnight or three or four hours *)
(* after it.                                                               *)
(***************************************************************************)
RetentionDays == {1, 2}

WaitHours == {CancelWindowHours, CancelWindowHours + 1}

RetentionFeeds == {<<>>, << FeedRecord("p1", B1, 1) >>, << FeedRecord("p1", B2, 1) >>}

Wait(h) ==
    /\ now = HoursPerDay * today
    /\ now' = now + h
    /\ UNCHANGED <<appointments, next_id, visit_mo_unique, today, reminders, bookings,
                   last_op, repeated, ops, pass_vars>>

NextDay ==
    /\ today < MaxDay
    /\ today' = today + 1
    /\ now' = HoursPerDay * (today + 1)
    /\ UNCHANGED <<appointments, next_id, visit_mo_unique, reminders, bookings,
                   last_op, repeated, ops, pass_vars>>

\* run_sync from the feed to the end of the reconciliation
StoreSync(feed) ==
    /\ ops < MaxStoreOps
    /\ LET r == run_sync_stages(appointments, next_id, feed, today, now)
       IN  /\ appointments' = r.T
           /\ next_id' = r.nid
           /\ Logged([op |-> "sync", feed |-> feed, saved |-> r.saved])
    /\ UNCHANGED <<visit_mo_unique, now, today, reminders, bookings, pass_vars>>

StoreCleanup(days_to_keep) ==
    /\ ops < MaxStoreOps
    /\ LET r == cleanup_old_appointments(appointments, now, days_to_keep)
       IN  /\ appointments' = r.T
           /\ Logged([op |-> "cleanup", days_to_keep |-> days_to_keep,
                      deleted |-> r.deleted])
    /\ UNCHANGED <<next_id, visit_mo_unique, now, today, reminders, bookings, pass_vars>>

\* the program starts again
StoreRestart ==
    /\ ops < MaxStoreOps
    /\ appointments' = migrate_appointments_book_id_mis(appointments)
    /\ Logged([op |-> "restart"])
    /\ UNCHANGED <<next_id, visit_mo_unique, now, today, reminders, bookings, pass_vars>>

InitRetention ==
    /\ InitCommon
    /\ visit_mo_unique = InitVisitMoIndex(FALSE, TRUE)
    /\ reminders = [u \in UserIds |-> TRUE]

NextRetention ==
    \/ \E b \in {<<>>, B1} : StoreAdd(1, AppointmentData(b, "D2"), 1)
    \/ StoreBooking(1, BookingData(B1, "D1"), 1)
    \/ \E r \in appointments, c \in CancelCalls :
          StoreCancel(r.id, 1, c.cancelled_by, c.force)
    \/ StoreMark({1})
    \/ \E feed \in RetentionFeeds : StoreSync(feed)
    \/ \E days_to_keep \in RetentionDays : StoreCleanup(days_to_keep)
    \/ StoreRestart
    \/ \E h \in WaitHours : Wait(h)
    \/ NextDay

SpecRetention == InitRetention /\ [][NextRetention]_vars

\* C23: cancel_appointment with force = FALSE on an active row created more
\* than three hours ago fails and leaves the row as it is; with force = TRUE
\* it cancels the row whatever its age; with force = FALSE on an active row
\* created at most three hours ago it cancels the row.
C23_CancelWindow ==
    [][ (last_op'.op = "cancel" /\ ops' = ops + 1)
        => \A r \in appointments :
              (r.id = last_op'.id /\ r.user_id = last_op'.user_id /\ r.status = "active")
              => IF ~last_op'.force /\ now - r.created_at[1] > CancelWindowHours
                 THEN ~last_op'.success /\ appointments' = appointments
                 ELSE /\ last_op'.success
                      /\ \E c \in appointments' :
                            /\ c.id = r.id /\ c.status = "cancelled"
                            /\ c.cancelled_by = Some(last_op'.cancelled_by)
                            /\ c.cancelled_at = Some(now) ]_vars

\* a cancel without force has been refused for an active row that is four
\* hours old
C23_Witness ==
    /\ last_op.op = "cancel" /\ ~last_op.force /\ ~last_op.success
    /\ \E r \in appointments :
          /\ r.id = last_op.id /\ r.user_id = last_op.user_id /\ r.status = "active"
          /\ now - r.created_at[1] = CancelWindowHours + 1


RowIds(T) == {r.id : r \in T}

ParseRecords ==
    { FeedRecord("p1", B1, 1), FeedRecord("p1", B1, 2),
      [FeedRecord("p1", B1, 1) EXCEPT !.phones = <<>>],
      [FeedRecord("p1", B1, 1) EXCEPT !.visit_time = Null] }

ParseFeeds == SeqsUpTo(ParseRecords, MaxFeed)

\* the counters of the parser before its next call
ParserCounts ==
    IF call.op = "parse" THEN call.counts ELSE NewParser

ParserCalls == IF call.op = "parse" THEN call.calls ELSE 0

Parse(feed) ==
    /\ ParserCalls < MaxParses
    /\ call' = [op |-> "parse", feed |-> feed, calls |-> ParserCalls + 1,
                before |-> ParserCounts,
                out |-> parse_response(feed, today),
                counts |-> parse_counts(ParserCounts, feed, today)]
    /\ UNCHANGED <<store_vars, tasks, is_syncing, step, notified, notifier, fetcher>>

InitParse ==
    /\ InitCommon
    /\ visit_mo_unique = InitVisitMoIndex(FALSE, TRUE)
    /\ reminders = [u \in UserIds |-> TRUE]

NextParse == \E feed \in ParseFeeds : Parse(feed)

SpecParse == InitParse /\ [][NextParse]_vars

\* the record has the required fields, a phone and a birth date
WellFormed(rec) ==
    /\ rec.fio # <<>> /\ rec.birth_date # Null /\ rec.phones # <<>>
    /\ rec.visit_time # Null

ForTomorrow(rec) == rec.visit_time[1].day = today + 1

\* C24: the output of the parser holds the well-formed records for
\* tomorrow, in the feed's order; a well-formed record for another date is
\* absent from the output and counted neither as processed nor as an error:
\* the processed counter grows by the number of records kept, the error
\* counter by the number of records that are not well-formed.
C24_OtherDateNotCounted ==
    call.op = "parse"
    => /\ call.out = SelectSeq(call.feed,
                               LAMBDA rec : WellFormed(rec) /\ ForTomorrow(rec))
       /\ call.counts.processed_count - call.before.processed_count = Len(call.out)
       /\ call.counts.error_count - call.before.error_count
             = Cardinality({i \in DOMAIN call.feed : ~WellFormed(call.feed[i])})


(***************************************************************************)
(* The confirmation of a cancellation by the user (bot_handlers, payload   *)
(* cancel_appointment_confirm) and CancelService.send_cancel_request.  An  *)
(* answer of the endpoint is a transport error or an HTTP status with a    *)
(* body; a body is the set of its elements <<tag, text>>.                  *)
(***************************************************************************)
TransportError == [kind |-> "error"]

Http(status, body) == [kind |-> "http", status |-> status, body |-> body]

CancelAnswers ==
    { TransportError,
      Http(200, {<<"Status_Code", "SUCCESS">>}),
      Http(200, {<<"Status_Code", "RECORD_NOT_FOUND">>}),
      Http(200, {}),
      Http(500, {<<"Status_Code", "SUCCESS">>}) }

\* the result of send_cancel_request, with its endpoint configured, for an
\* answer of the endpoint
send_cancel_request(answer) ==
    IF answer.kind = "error" THEN [success |-> FALSE, response |-> {}]
    ELSE [success |-> 200 <= answer.status /\ answer.status < 300,
          response |-> answer.body]

\* re.search(r"<(?:\w+:)?Status_Code>\s*SUCCESS\s*</(?:\w+:)?Status_Code>", ...)
success_match(response_text) == <<"Status_Code", "SUCCESS">> \in response_text

\* the handler up to the request: the outcome that ends it, or "request"
confirm_checks(T, appointment_id, user_id) ==
    IF user_id \notin UserIds THEN "not_registered"
    ELSE IF ~\E r \in T : r.id = appointment_id /\ r.user_id = user_id THEN "not_found"
    ELSE LET r == CHOOSE x \in T : x.id = appointment_id /\ x.user_id = user_id
         IN  IF r.status = "cancelled" THEN "already_cancelled"
             ELSE IF r.appointment_json.Book_Id_Mis = <<>> THEN "missing_book_id_mis"
             ELSE "request"

\* the handler from the result of the request to its end.
\* (confirm_after_request_any_success is the faulty variant that takes every
\* successful request for a cancellation.)
confirm_after_request_any_success(T, t, appointment_id, user_id, cancel_result) ==
    IF ~cancel_result.success THEN [T |-> T, outcome |-> "soap_error"]
    ELSE LET result == cancel_appointment(T, t, appointment_id, user_id,
                                          "user_cancel", FALSE)
         IN  [T |-> result.T,
              outcome |-> IF result.success THEN "cancelled" ELSE "cancel_failed"]
confirm_after_request(T, t, appointment_id, user_id, cancel_result) ==
    IF ~cancel_result.success THEN [T |-> T, outcome |-> "soap_error"]
    ELSE IF ~success_match(cancel_result.response)
    THEN [T |-> T, outcome |-> "external_status_not_success"]
    ELSE LET result == cancel_appointment(T, t, appointment_id, user_id,
                                          "user_cancel", FALSE)
         IN  [T |-> result.T,
              outcome |-> IF result.success THEN "cancelled" ELSE "cancel_failed"]

\* the user presses the confirmation button; one confirmation at a time
cancel_appointment_confirm(appointment_id, user_id) ==
    /\ ~(call.op = "confirm" /\ call.outcome = "request")
    /\ call' = [op |-> "confirm", appointment_id |-> appointment_id,
                user_id |-> user_id,
                outcome |-> confirm_checks(appointments, appointment_id, user_id)]
    /\ UNCHANGED <<store_vars, tasks, is_syncing, step, notified, notifier, fetcher>>

\* the endpoint answers and the handler runs to its end
cancel_answered(answer) ==
    /\ call.op = "confirm" /\ call.outcome = "request"
    /\ \E r \in {confirm_after_request(appointments, now, call.appointment_id,
                                       call.user_id, send_cancel_request(answer))} :
          /\ appointments' = r.T
          /\ call' = [op |-> "confirmed", appointment_id |-> call.appointment_id,
                      user_id |-> call.user_id, answer |-> answer,
                      outcome |-> r.outcome]
    /\ UNCHANGED <<next_id, visit_mo_unique, now, today, reminders, bookings,
                   last_op, repeated, ops, tasks, is_syncing, step, notified,
                   notifier, fetcher>>

InitCancel ==
    /\ InitCommon
    /\ visit_mo_unique = InitVisitMoIndex(FALSE, TRUE)
    /\ reminders = [u \in UserIds |-> TRUE]

NextCancel ==
    \/ \E b \in {<<>>, B1, B2} : StoreBooking(1, BookingData(b, "D1"), 1)
    \/ \E b \in {B1} : StoreAdd(1, AppointmentData(b, "D2"), 1)
    \/ \E r \in appointments : StoreCancel(r.id, r.user_id, "system_sync", TRUE)
    \/ \E id \in 1..2, u \in UserIds : cancel_appointment_confirm(id, u)
    \/ \E answer \in CancelAnswers : cancel_answered(answer)
    \/ \E h \in WaitHours : Wait(h)

SpecCancel == InitCancel /\ [][NextCancel]_vars

\* the rows that a step turns into rows cancelled by the user
NewlyUserCancelled ==
    {r \in appointments' :
        /\ r.status = "cancelled" /\ r.cancelled_by = Some("user_cancel")
        /\ \A o \in appointments : o.id = r.id => o.status # "cancelled"}

\* the endpoint has answered with a 2xx status and a status element SUCCESS
AnsweredSuccess(answer) ==
    /\ answer.kind = "http"
    /\ answer.status \in 200..299
    /\ \E e \in answer.body : e[1] = "Status_Code" /\ e[2] = "SUCCESS"

\* C26: a row becomes cancelled by user_cancel only in the step in which
\* the endpoint answers the confirmation's request with a 2xx status and a
\* status element SUCCESS, and it is the row of the confirmation; an answer
\* without that element, with another status or a transport error leaves
\* the table as it is.
C26_CancelOnlyAfterSuccess ==
    [][ /\ NewlyUserCancelled # {}
           => /\ call.op = "confirm" /\ call.outcome = "request"
              /\ call'.op = "confirmed" /\ AnsweredSuccess(call'.answer)
              /\ \A r \in NewlyUserCancelled : r.id = call.appointment_id
        /\ (call'.op = "confirmed" /\ call.op = "confirm"
               /\ ~AnsweredSuccess(call'.answer))
           => appointments' = appointments ]_vars

\* the endpoint has answered SUCCESS and the row of the confirmation is
\* cancelled by the user
C26_Witness ==
    /\ call.op = "confirmed" /\ call.outcome = "cancelled"
    /\ AnsweredSuccess(call.answer)
    /\ \E r \in appointments :
          /\ r.id = call.appointment_id /\ r.status = "cancelled"
          /\ r.cancelled_by = Some("user_cancel")


(***************************************************************************)
(* The daily pass with the notification stage in full: feeds for two       *)
(* users, and every status that send_notification returns for a user.      *)
(***************************************************************************)
RemindFeeds ==
    { << FeedRecord("p1", B1, 1) >>,
      << FeedRecord("p1", B1, 1), FeedRecord("p2", B2, 1) >>,
      << FeedRecord("p2", B2, 1), FeedRecord("p1", B1, 1), FeedRecord("p1", B2, 1) >> }

SendStatuses == {"sent", "skipped_time", "denied", "error"}

InitRemind ==
    /\ InitCommon
    /\ visit_mo_unique = InitVisitMoIndex(FALSE, TRUE)
    /\ reminders = [u \in UserIds |-> TRUE]

NextRemind ==
    \/ ScheduledSync("daily")
    \/ \E feed \in RemindFeeds : ProcessFeed("daily", feed)
    \/ \E o \in SendStatuses : SendOne("daily", o)
    \/ FinishPass("daily")

SpecRemind == InitRemind /\ [][NextRemind]_vars

\* the ids listed for the users of the batch whose detail status is sent
SentIds(details) ==
    {id \in RowIds(appointments) :
        \E i \in DOMAIN details :
            /\ details[i].status = "sent"
            /\ \E j \in DOMAIN details[i].ids : details[i].ids[j] = Some(id)}

\* the ids that the pass has queued for notification
QueuedIds(queue) ==
    {id \in RowIds(appointments') :
        \E i \in DOMAIN queue : \E j \in DOMAIN queue[i].ids : queue[i].ids[j] = Some(id)}

\* C27: when a pass ends its notification stage, the rows listed for the
\* users whose detail status is sent have reminder_24h_sent_at set, and
\* every other row is as it was: a row of a user whose status is
\* skipped_time, denied or error keeps its NULL reminder_24h_sent_at.  A
\* later pass queues every row of its matched records whose
\* reminder_24h_sent_at is NULL.
C27_MarkedIffSent ==
    [][ /\ step'.a = "FinishPass"
           => \A r \in appointments :
                 \E r2 \in appointments' :
                     /\ r2.id = r.id
                     /\ r.id \in SentIds(tasks[step'.task].details)
                           => r2.reminder_24h_sent_at # Null
                     /\ r.id \notin SentIds(tasks[step'.task].details) => r2 = r
        /\ step'.a = "ProcessFeed"
           => \A i \in DOMAIN MatchedOf(step'.feed) :
                 \A r \in RecordRows(appointments', MatchedOf(step'.feed)[i]) :
                     r.reminder_24h_sent_at = Null
                     => r.id \in QueuedIds(tasks'[step'.task].queue) ]_vars

\* a pass has ended with the row of one user delivered once and marked and
\* the row of the other user, whose send was not delivered, not marked
C27_Witness ==
    /\ step.a = "FinishPass"
    /\ \E r1, r2 \in appointments :
          /\ r1.user_id = 1 /\ r1.reminder_24h_sent_at # Null
          /\ r2.user_id = 2 /\ r2.reminder_24h_sent_at = Null
          /\ notified = (r1.id :> 1)


(***************************************************************************)
(* run_sync, stage 4, when add_appointment meets a database error for the  *)
(* matched records at the positions in failed: the handler of              *)
(* add_appointment rolls the statement back and returns success = False,   *)
(* and the loop goes on with the next record.                              *)
(***************************************************************************)
add_appointment_error(T, nid) == [T |-> T, nid |-> nid, res |-> NoResult]

\* one iteration of the loop over matched_records, add_appointment raising
\* when fails is TRUE.
\* (PersistOneOrErrorSaved is the faulty variant that stores the record all
\* the same.)
PersistOneOrErrorSaved(acc, m, t, fails) == PersistOne(acc, m, t, FALSE)
PersistOneOrError(acc, m, t, fails) ==
    IF fails /\ reminders[m.user_id]
    THEN WithSaved(acc, m, add_appointment_error(acc.T, acc.nid), FALSE)
    ELSE PersistOne(acc, m, t, FALSE)

RECURSIVE PersistWithErrors(_, _, _, _, _)
PersistWithErrors(acc, matched, t, failed, i) ==
    IF i > Len(matched) THEN acc
    ELSE PersistWithErrors(PersistOneOrError(acc, matched[i], t, i \in failed),
                           matched, t, failed, i + 1)

\* run_sync from the arrival of the feed to the first await of the
\* notification stage, the upserts at the positions in failed raising a
\* database error
ProcessFeedWithErrors(p, feed, failed) ==
    /\ tasks[p].pc = "fetching"
    /\ tasks[p].kind = "run_sync"
    /\ failed # {}
    /\ failed \subseteq DOMAIN MatchedAt(feed, today)
    /\ \E r \in {StagesResult(appointments, next_id, parse_response(feed, today),
                              MatchedAt(feed, today),
                              PersistWithErrors(NoAcc(appointments, next_id),
                                                MatchedAt(feed, today), now, failed, 1),
                              today, now, FALSE)} :
           /\ appointments' = r.T
           /\ next_id' = r.nid
           /\ tasks' = [tasks EXCEPT ![p] =
                          IF r.queue = <<>>
                          THEN [IdleTask EXCEPT !.pc = AfterPass(p)]
                          ELSE [@ EXCEPT !.pc = "sending", !.queue = r.queue,
                                         !.summary = Summary(r.parsed, r.matched,
                                                             r.saved, r.unmatched)]]
           /\ step' = [a |-> "ProcessFeedWithErrors", task |-> p, kind |-> tasks[p].kind,
                       feed |-> feed, failed |-> failed,
                       mid |-> r.mid, reconciled |-> r.reconciled,
                       returned |-> (r.queue = <<>>),
                       result |-> create_success_result(
                                     Summary(r.parsed, r.matched, r.saved,
                                             r.unmatched))]
    /\ UNCHANGED <<visit_mo_unique, now, today, reminders, bookings,
                   last_op, repeated, ops, is_syncing, notified, notifier, fetcher, call>>

InitUpsertError ==
    /\ InitCommon
    /\ visit_mo_unique = InitVisitMoIndex(FALSE, TRUE)
    /\ \E on \in BOOLEAN : reminders = [u \in UserIds |-> u # 2 \/ on]

NextUpsertError ==
    \/ ScheduledSync("daily")
    \/ \E feed \in RemindFeeds : ProcessFeed("daily", feed)
    \/ \E feed \in RemindFeeds, failed \in SUBSET (1..MaxFeed) :
          ProcessFeedWithErrors("daily", feed, failed)
    \/ \E o \in {"sent", "skipped_time"} : SendOne("daily", o)
    \/ FinishPass("daily")

SpecUpsertError == InitUpsertError /\ [][NextUpsertError]_vars

\* C28: when the upsert of a matched record meets a database error, the
\* rows under the record's key are as before the pass, none of them is
\* queued for notification and the record is not counted as saved; every
\* other matched record of a user with reminders enabled has its active
\* row, queued when its reminder was not sent; the pass ends with a success
\* result.
C28_UpsertErrorSkipsRecord ==
    [][ step'.a = "ProcessFeedWithErrors"
        => /\ \A i \in DOMAIN MatchedOf(step'.feed) :
                 LET m == MatchedOf(step'.feed)[i]
                 IN  IF i \in step'.failed
                     THEN /\ RecordRows(step'.mid, m) = RecordRows(appointments, m)
                          /\ \A r \in RecordRows(step'.mid, m) :
                                r.id \notin QueuedIds(tasks'[step'.task].queue)
                     ELSE reminders[m.user_id]
                          => \E r \in RecordRows(step'.mid, m) :
                                /\ r.status = "active"
                                /\ r.reminder_24h_sent_at = Null
                                      => r.id \in QueuedIds(tasks'[step'.task].queue)
           /\ step'.result.summary.new_appointments_saved
                 = Cardinality(RowIds(step'.mid) \ RowIds(appointments))
           /\ Cardinality(RowIds(step'.mid) \ RowIds(appointments))
                 = Cardinality({i \in DOMAIN MatchedOf(step'.feed) :
                       /\ i \notin step'.failed
                       /\ reminders[MatchedOf(step'.feed)[i].user_id]
                       /\ RecordRows(appointments, MatchedOf(step'.feed)[i]) = {}})
           /\ step'.result.success
           /\ step'.result.error = Null
           /\ tasks'[step'.task].pc \in {"idle", "sending"} ]_vars

\* the upsert of the first of two matched records has met a database
\* error; the second record is stored and queued, and nothing else
C28_Witness ==
    /\ step.a = "ProcessFeedWithErrors"
    /\ step.failed = {1}
    /\ Len(MatchedOf(step.feed)) = 2
    /\ step.result.success
    /\ step.result.summary.new_appointments_saved = 1
    /\ \E r \in appointments :
          /\ appointments = {r}
          /\ r.user_id = 2
          /\ tasks["daily"].queue = << [user_id |-> 2, ids |-> << Some(r.id) >>] >>


\* the rows that hold the slot of the latest add_appointment call
SlotOfCall(T, entry) ==
    SlotRows(T, entry.user_id, Some(VisitTime(entry.day, 9)), Mo("MO1"))

\* C29: add_appointment with a payload without booking identifier, for a
\* user of the directory: when no row holds the slot (user, visit time,
\* organization) the call succeeds with inserted = true and the slot holds
\* one row afterwards; when one row holds the slot the call succeeds with
\* inserted = false and the slot holds that one row afterwards.
C29_FallbackKeyDeduplicates ==
    [][ (/\ last_op'.op = "add" /\ ops' = ops + 1
         /\ last_op'.user_id \in UserIds
         /\ Strip(last_op'.data.Book_Id_Mis) = <<>>)
        => /\ SlotOfCall(appointments, last_op') = {}
                => /\ last_op'.res.success /\ last_op'.res.inserted
                   /\ Cardinality(SlotOfCall(appointments', last_op')) = 1
           /\ Cardinality(SlotOfCall(appointments, last_op')) = 1
                => /\ last_op'.res.success /\ ~last_op'.res.inserted
                   /\ SlotOfCall(appointments', last_op')
                         = SlotOfCall(appointments, last_op') ]_vars


\* C30: every row is active or cancelled; a cancelled row has cancelled_at
\* set and cancelled_by user_cancel or system_sync, an active row has
\* neither cancelled_at nor cancelled_by.
C30_StatusMatchesMetadata ==
    \A r \in appointments :
        /\ r.status \in {"active", "cancelled"}
        /\ r.status = "cancelled"
              => /\ r.cancelled_at # Null
                 /\ r.cancelled_by \in {Some("user_cancel"), Some("system_sync")}
        /\ r.status = "active"
              => r.cancelled_at = Null /\ r.cancelled_by = Null


(***************************************************************************)
(* utils.normalize_phone.  A string is a sequence of characters.           *)
(***************************************************************************)
Digits == {"0", "1", "2", "3", "4", "5", "6", "7", "8", "9"}

IsDigit(s) == s # <<>> /\ \A i \in DOMAIN s : s[i] \in Digits

StartsWith(s, prefix) ==
    Len(s) >= Len(prefix) /\ SubSeq(s, 1, Len(prefix)) = prefix

\* the slice s[a:b] of Python, 0 <= a <= b
Slice(s, a, b) == SubSeq(s, a + 1, IF b < Len(s) THEN b ELSE Len(s))

\* re.split(r'[;,]+', phone_str); the empty parts that this split yields
\* between adjacent separators are skipped by the loop like any empty part
RECURSIVE SplitParts(_, _)
SplitParts(s, part) ==
    IF s = <<>> THEN <<part>>
    ELSE IF Head(s) \in {";", ","} THEN <<part>> \o SplitParts(Tail(s), <<>>)
    ELSE SplitParts(Tail(s), Append(part, Head(s)))

\* re.sub(r'[^\d+]', '', phone)
Cleaned(phone) == SelectSeq(phone, LAMBDA ch : ch \in Digits \cup {"+"})

\* the checked result for a number brought to the form +7...: a list of
\* one number, or no number
Checked(normalized) ==
    IF Len(normalized) = 12 /\ IsDigit(Tail(normalized))
    THEN <<normalized>> ELSE <<>>

\* one iteration of the loop over phone_parts: the numbers appended.
\* (normalize_part_bare is the faulty variant that takes a number without
\* prefix as well.)
normalize_part_bare(phone) ==
    IF Strip(phone) = <<>> \/ Cleaned(Strip(phone)) = <<>> THEN <<>>
    ELSE IF StartsWith(Cleaned(Strip(phone)), <<"+", "7">>)
    THEN Checked(Slice(Cleaned(Strip(phone)), 0, 12))
    ELSE IF StartsWith(Cleaned(Strip(phone)), <<"7">>)
    THEN Checked(<<"+", "7">> \o Slice(Cleaned(Strip(phone)), 1, 12))
    ELSE IF StartsWith(Cleaned(Strip(phone)), <<"8">>)
    THEN Checked(<<"+", "7">> \o Slice(Cleaned(Strip(phone)), 1, 12))
    ELSE Checked(<<"+", "7">> \o Slice(Cleaned(Strip(phone)), 0, 12))
normalize_part(phone) ==
    IF Strip(phone) = <<>> \/ Cleaned(Strip(phone)) = <<>> THEN <<>>
    ELSE IF StartsWith(Cleaned(Strip(phone)), <<"+", "7">>)
    THEN Checked(Slice(Cleaned(Strip(phone)), 0, 12))
    ELSE IF StartsWith(Cleaned(Strip(phone)), <<"7">>)
    THEN Checked(<<"+", "7">> \o Slice(Cleaned(Strip(phone)), 1, 12))
    ELSE IF StartsWith(Cleaned(Strip(phone)), <<"8">>)
    THEN Checked(<<"+", "7">> \o Slice(Cleaned(Strip(phone)), 1, 12))
    ELSE <<>>

RECURSIVE normalize_parts(_)
normalize_parts(phone_parts) ==
    IF phone_parts = <<>> THEN <<>>
    ELSE normalize_part(Head(phone_parts)) \o normalize_parts(Tail(phone_parts))

normalize_phone(phone_str) ==
    IF phone_str = <<>> THEN <<>> ELSE normalize_parts(SplitParts(phone_str, <<>>))


(***************************************************************************)
(* normalize_phone alone, and the parser's check of its result: strings of *)
(* up to MaxPhones numbers written with and without prefix, with ten or    *)
(* eleven further digits, plain or with punctuation.                       *)
(***************************************************************************)
Nines(n) == [i \in 1..n |-> "9"]

PhonePrefixes == {<<"+", "7">>, <<"7">>, <<"8">>, <<>>}

PhoneLengths == {10, 11}

\* +7 (999) 999-... written with punctuation
Punctuated(prefix, body) ==
    <<" ">> \o prefix \o <<"(">> \o SubSeq(body, 1, 3) \o <<")", " ">>
        \o SubSeq(body, 4, Len(body) - 2) \o <<"-">>
        \o SubSeq(body, Len(body) - 1, Len(body))

PhoneParts ==
    {prefix \o Nines(n) : prefix \in PhonePrefixes, n \in PhoneLengths}
    \cup {Punctuated(prefix, Nines(10)) : prefix \in PhonePrefixes}
    \cup { <<" ">>, <<"7", "+">> \o Nines(10), <<"+", "8">> \o Nines(10),
           <<"+", "7">> \o Nines(10) \o <<"+", "1">> }

RECURSIVE Joined(_, _)
Joined(parts, sep) ==
    IF Len(parts) = 1 THEN parts[1]
    ELSE parts[1] \o <<sep>> \o Joined(Tail(parts), sep)

PhoneStrings ==
    {<<>>} \cup
    {Joined(parts, sep) : parts \in SeqsUpTo(PhoneParts, MaxPhones) \ {<<>>},
                          sep \in {";", ","}}

\* Parser._parse_single_record on a record with this Mobile_Phone
parse_phone(phone_str) ==
    /\ call.op = "none"
    /\ call' = [op |-> "normalize_phone", phone_str |-> phone_str,
                out |-> normalize_phone(phone_str),
                kept |-> ParserKeeps([FeedRecord("p1", B1, 1) EXCEPT
                                         !.phones = normalize_phone(phone_str)],
                                     today)]
    /\ UNCHANGED <<store_vars, tasks, is_syncing, step, notified, notifier, fetcher>>

InitPhone ==
    /\ InitCommon
    /\ visit_mo_unique = InitVisitMoIndex(FALSE, TRUE)
    /\ reminders = [u \in UserIds |-> TRUE]

NextPhone == \E phone_str \in PhoneStrings : parse_phone(phone_str)

SpecPhone == InitPhone /\ [][NextPhone]_vars

\* +7 followed by exactly ten digits
Canonical(p) ==
    /\ Len(p) = 12 /\ p[1] = "+" /\ p[2] = "7"
    /\ \A i \in 3..12 : p[i] \in Digits

\* the part with every character removed except its digits and a leading +
DigitsAndLeadingPlus(part) ==
    (IF Strip(part) # <<>> /\ Head(Strip(part)) = "+" THEN <<"+">> ELSE <<>>)
        \o SelectSeq(part, LAMBDA ch : ch \in Digits)

LastTen(c) == SubSeq(c, Len(c) - 9, Len(c))

\* written with a leading 7, 8 or +7 before ten digits, or as ten digits
InClaimedForm(c) ==
    \/ Len(c) = 10 /\ IsDigit(c)
    \/ Len(c) = 11 /\ c[1] \in {"7", "8"} /\ IsDigit(c)
    \/ Len(c) = 12 /\ c[1] = "+" /\ c[2] = "7" /\ IsDigit(Tail(c))

\* C31 as stated: every number of the string that, stripped to its digits
\* and a leading +, has a leading 7, 8 or +7 before ten digits or is a bare
\* ten-digit number, is in the output as +7 and its last ten digits; every
\* output has the form +7 and ten digits; the parser keeps the record only
\* when some number is output.
C31_PhonesCanonical ==
    call.op = "normalize_phone"
    => /\ \A i \in DOMAIN call.out : Canonical(call.out[i])
       /\ \A j \in DOMAIN SplitParts(call.phone_str, <<>>) :
             LET c == DigitsAndLeadingPlus(SplitParts(call.phone_str, <<>>)[j])
             IN  InClaimedForm(c)
                 => \E i \in DOMAIN call.out :
                        call.out[i] = <<"+", "7">> \o LastTen(c)
       /\ call.kept <=> call.out # <<>>

\* what C31 amended expects for a number with every character removed
\* except digits and +
ExpectedNumber(c) ==
    IF Len(c) >= 12 /\ c[1] = "+" /\ c[2] = "7" /\ \A i \in 3..12 : c[i] \in Digits
    THEN << SubSeq(c, 1, 12) >>
    ELSE IF Len(c) = 11 /\ c[1] \in {"7", "8"} /\ \A i \in 2..11 : c[i] \in Digits
    THEN << <<"+", "7">> \o SubSeq(c, 2, 11) >>
    ELSE <<>>

RECURSIVE ExpectedNumbers(_)
ExpectedNumbers(parts) ==
    IF parts = <<>> THEN <<>>
    ELSE ExpectedNumber(SelectSeq(Head(parts), LAMBDA ch : ch \in Digits \cup {"+"}))
             \o ExpectedNumbers(Tail(parts))

\* C31 amended: the output lists, in the order of the string, +7 and the
\* ten digits for every number that with every character removed except
\* digits and + is +7 followed by ten digits (what follows them is cut
\* off) or is 7 or 8 followed by exactly ten digits; any other number, a
\* bare ten-digit number included, gives no output; every output has the
\* form +7 and ten digits; the parser keeps the record only when some
\* number is output.
C31_PhonesCanonicalByPrefix ==
    call.op = "normalize_phone"
    => /\ \A i \in DOMAIN call.out : Canonical(call.out[i])
       /\ call.out = ExpectedNumbers(SplitParts(call.phone_str, <<>>))
       /\ call.kept <=> call.out # <<>>

\* a string of a bare ten-digit number and a punctuated number with a
\* leading 8 has given one number, and the record is kept
C31_Witness ==
    /\ call.op = "normalize_phone"
    /\ call.phone_str = Joined(<<Nines(10), Punctuated(<<"8">>, Nines(10))>>, ";")
    /\ call.out = << <<"+", "7">> \o Nines(10) >>
    /\ call.kept


\* no element occurs twice in the sequence
Injective(s) == \A i, j \in DOMAIN s : s[i] = s[j] => i = j

\* two matched records have the same user and the same booking identifier
RepeatsBooking(matched) ==
    \E i, j \in DOMAIN matched :
        /\ i # j
        /\ matched[i].user_id = matched[j].user_id
        /\ matched[i].rec.book # <<>>
        /\ matched[i].rec.book = matched[j].rec.book

\* C32: when the feed of a pass has two or more records of one user with
\* one booking identifier, the pass stores one row for them, and the list
\* handed to the notifier for a user holds each appointment row id at most
\* once.
C32_DuplicateListedOnce ==
    [][ ( /\ step'.a = "ProcessFeed"
          /\ step' # step
          /\ step'.kind = "run_sync"
          /\ RepeatsBooking(MatchedAt(step'.feed, today)) )
        => /\ \A k \in DOMAIN MatchedAt(step'.feed, today) :
                 LET m == MatchedAt(step'.feed, today)[k]
                 IN  m.rec.book # <<>>
                     => Cardinality(RowsWithBook(step'.mid, m.user_id,
                                                 Strip(m.rec.book))) <= 1
           /\ \A i \in DOMAIN tasks'[step'.task].queue :
                 Injective(tasks'[step'.task].queue[i].ids) ]_vars


\* C33: when a pass has persisted and reconciled a feed, every row that it
\* has queued for notification is active: the reconciliation stage has
\* cancelled none of the rows that the persistence stage queued, whether
\* the pass inserted the row or found it.
C33_QueuedStayActive ==
    [][ ( /\ step'.a = "ProcessFeed"
          /\ step' # step
          /\ step'.kind = "run_sync" )
        => \A i \in DOMAIN tasks'[step'.task].queue :
              \A j \in DOMAIN tasks'[step'.task].queue[i].ids :
                 \E r \in appointments' :
                    /\ Some(r.id) = tasks'[step'.task].queue[i].ids[j]
                    /\ r.status = "active" ]_vars


(***************************************************************************)
(* The daily pass over feeds whose booking identifiers are written as      *)
(* stored, padded with a blank, or missing, next to the interactive        *)
(* booking flow.                                                           *)
(***************************************************************************)
ReconcileFeedRecords ==
    { FeedRecord("p1", B1, 1), FeedRecord("p1", B1Padded, 1),
      FeedRecord("p1", <<>>, 1), FeedRecord("p1", B2, 1) }

ReconcileFeeds == SeqsUpTo(ReconcileFeedRecords, MaxFeed)

NextReconcile ==
    \/ ScheduledSync("daily")
    \/ \E feed \in ReconcileFeeds : ProcessFeed("daily", feed)
    \/ \E o \in {"sent", "skipped_time"} : SendOne("daily", o)
    \/ FinishPass("daily")
    \/ \E b \in BookingBooks, d \in BookingDays : Booking(1, b, d)

SpecReconcile == InitSync /\ [][NextReconcile]_vars


\* C34: the summary of every successful result of run_sync, returned early
\* or after the notification stage, has patients_matched +
\* patients_unmatched = total_received, total_received being the number of
\* records that the parser returned, and new_appointments_saved <=
\* patients_matched.
C34_SummaryAddsUp ==
    [][ ( /\ step'.a = "ProcessFeed"
          /\ step' # step
          /\ step'.kind = "run_sync"
          /\ step'.result.success )
        => /\ step'.result.summary.total_received
                 = Len(parse_response(step'.feed, today))
           /\ step'.result.summary.patients_matched
                 + step'.result.summary.patients_unmatched
                 = step'.result.summary.total_received
           /\ step'.result.summary.new_appointments_saved
                 <= step'.result.summary.patients_matched ]_vars


(***************************************************************************)
(* SyncService with its record of the last pass: calls of run_sync one     *)
(* after the other, each from its start to its return in one step, and     *)
(* the clock.  The fetch gives a feed or nothing, a stage before the       *)
(* notification stage may raise (after k matched records when it is the    *)
(* persistence stage), and every user of the batch gets the status o.      *)
(***************************************************************************)
StatusFeeds ==
    { <<>>, << FeedRecord("p1x", B1, 1) >>, << FeedRecord("p1", B1, 1) >>,
      << FeedRecord("p1", B1, 1), FeedRecord("p2", B2, 1) >> }

Fetched == {Null} \cup {Some(feed) : feed \in StatusFeeds}

\* the SyncService of the calls so far, and their number
ServiceOf(c) == IF c.op = "run_sync" THEN c.service ELSE NewService

PassesOf(c) == IF c.op = "run_sync" THEN c.passes ELSE 0

\* the details of a batch in which every user of the queue got status o
DetailsAll(queue, o) ==
    [i \in DOMAIN queue |->
        [user_id |-> queue[i].user_id, status |-> o, ids |-> queue[i].ids]]

\* notified after the delivery of messages that list the rows got
Delivered(got) ==
    [i \in (DOMAIN notified) \cup got |->
        (IF i \in DOMAIN notified THEN notified[i] ELSE 0)
        + (IF i \in got THEN 1 ELSE 0)]

\* how a call ends: the table, the deliveries, the result, and whether the
\* call reached the assignments of last_sync_time and last_sync_result
Ended(T, nid, got, result, recorded) ==
    [T |-> T, nid |-> nid, notified |-> Delivered(got), result |-> result,
     recorded |-> recorded]

\* run_sync from the notification stage on, r being the stages before it
run_sync_completes(r, o) ==
    IF ~r.reconciled
    THEN Ended(r.T, r.nid, {},
               create_success_result(Summary(r.parsed, r.matched, r.saved,
                                             r.unmatched)), FALSE)
    ELSE Ended(mark_reminder_24h_sent(r.T, now,
                                      IdsToMark(DetailsAll(r.queue, o))).T,
               r.nid, IdsToMark(DetailsAll(r.queue, o)),
               create_success_result(Summary(r.parsed, r.matched, r.saved,
                                             r.unmatched)), TRUE)

\* run_sync when a stage raises, acc being what was stored before
run_sync_fails(acc, stage) ==
    Ended(acc.T, acc.nid, {}, create_error_result(stage), FALSE)

run_sync_ends(fetched, stage, k, o) ==
    IF fetched = Null
    THEN Ended(appointments, next_id, {}, create_error_result("fetch"), FALSE)
    ELSE IF stage # "none"
    THEN run_sync_fails(RaisedAfter(appointments, next_id,
                                    MatchedAt(fetched[1], today), stage, k, now),
                        stage)
    ELSE run_sync_completes(run_sync_stages(appointments, next_id, fetched[1],
                                            today, now), o)

run_sync(fetched, stage, k, o) ==
    /\ PassesOf(call) < MaxPasses
    /\ fetched = Null => stage = "none" /\ k = 0
    /\ fetched # Null
          => /\ k <= Len(MatchedAt(fetched[1], today))
             /\ stage # "upsert" => k = 0
    /\ \E e \in {run_sync_ends(fetched, stage, k, o)} :
          /\ appointments' = e.T
          /\ next_id' = e.nid
          /\ notified' = e.notified
          /\ call' = [op |-> "run_sync", passes |-> PassesOf(call) + 1,
                      result |-> e.result,
                      service |-> IF e.recorded THEN sync_recorded(e.result, now)
                                  ELSE ServiceOf(call)]
    /\ UNCHANGED <<visit_mo_unique, now, today, reminders, bookings, last_op,
                   repeated, ops, tasks, is_syncing, step, notifier, fetcher>>

NextStatus ==
    \/ \E fetched \in Fetched, stage \in FeedStages \cup {"none"}, k \in 0..MaxFeed,
          o \in SendStatuses : run_sync(fetched, stage, k, o)
    \/ Tick

SpecStatus == InitRemind /\ [][NextStatus]_vars

\* C35: when a call of run_sync has returned, get_status describes that
\* call: last_sync_success is the success of its result, false after an
\* error result and true after a success result, the early returns
\* included, and last_sync_time is the time at which the call ended.
C35_StatusOfLatestPass ==
    [][ (call' # call /\ call'.op = "run_sync")
        => /\ get_status(call'.service).last_sync_success
                 = Some(call'.result.success)
           /\ get_status(call'.service).last_sync_time = Some(now) ]_vars

(***************************************************************************)
(* One admin who replays a file with /admin_sync_mock and starts regular   *)
(* passes with /admin_sync, one command after the other: no two passes     *)
(* overlap.                                                                *)
(***************************************************************************)
NextReplay ==
    \/ handle_sync_command("admin1")
    \/ \E has_path \in BOOLEAN : handle_mock_command("admin1", has_path)
    \/ handler_finally("admin1")
    \/ FetchFailed("admin1")
    \/ \E feed \in RemindFeeds : ProcessFeed("admin1", feed)
    \/ \E o \in SendStatuses : SendOne("admin1", o)
    \/ FinishPass("admin1")

SpecReplay == InitRemind /\ [][NextReplay]_vars

\* a message that lists the row was delivered and the row is not marked.
\* Passes do not overlap here and run_sync marks the rows of every
\* delivered message before it ends, so the message came from a replay.
DeliveredByReplay(id) ==
    /\ id \in DOMAIN notified
    /\ notified[id] >= 1
    /\ \E r \in appointments : r.id = id /\ r.reminder_24h_sent_at = Null

\* C36: a regular pass delivers no message that lists an appointment for
\* which a replay by force_sync_with_mock has delivered one.
C36_ReplayedNotNotifiedAgain ==
    [][ ( /\ step'.a = "SendOne"
          /\ step' # step
          /\ tasks[step'.task].kind = "run_sync"
          /\ step'.outcome = "sent" )
        => \A id \in step'.ids : ~DeliveredByReplay(id) ]_vars


\* the number of users of the batch whose detail status is status
UsersWithStatus(details, status) ==
    Cardinality({i \in DOMAIN details : details[i].status = status})

\* C37: the summary that send_batch_notifications returns agrees with its
\* details: sent, skipped, denied and errors are the numbers of users of
\* this batch with the status sent, skipped_time, denied and error, and
\* they add up to total_users, in the first batch of a notifier and in
\* every later one.
C37_SummaryMatchesDetails ==
    (notifier.pc = "idle" /\ notifier.results # Null)
    => LET results == notifier.results[1]
       IN  /\ results.sent = UsersWithStatus(notifier.details, "sent")
           /\ results.skipped = UsersWithStatus(notifier.details, "skipped_time")
           /\ results.denied = UsersWithStatus(notifier.details, "denied")
           /\ results.errors = UsersWithStatus(notifier.details, "error")
           /\ results.sent + results.skipped + results.denied + results.errors
                 = results.total_users


\* the step just taken is the return of a call of send_notification
CallReturned ==
    /\ notifier'.pc = "next"
    /\ Len(notifier'.details) = Len(notifier.details) + 1

\* C38: every call of send_notification adds one to exactly one of the
\* counters sent, skipped, denied, errors, whichever way it returns (out of
\* hours, no message, no chat, sent, denied, failed, an exception raised),
\* and nothing else changes a counter: total_attempted grows by one with
\* each call, it is the number of calls of the first batch, and no counter
\* decreases.
C38_OneCounterPerCall ==
    [][ /\ get_stats(notifier').sent >= get_stats(notifier).sent
        /\ get_stats(notifier').skipped >= get_stats(notifier).skipped
        /\ get_stats(notifier').denied >= get_stats(notifier).denied
        /\ get_stats(notifier').errors >= get_stats(notifier).errors
        /\ get_stats(notifier').total_attempted
              = get_stats(notifier).total_attempted + (IF CallReturned THEN 1 ELSE 0)
        /\ notifier'.batches = 1
              => get_stats(notifier').total_attempted = Len(notifier'.details) ]_vars

\* a call for a user without chat has returned error as the second call of
\* a batch and the counters show two calls
C38_Witness ==
    /\ step.a = "send_notification"
    /\ notifier.pc = "next"
    /\ Len(notifier.details) = 2
    /\ LastStatus(notifier) = "error"
    /\ notifier.responses = <<>>
    /\ get_stats(notifier).total_attempted = 2


(***************************************************************************)
(* The appointment table under cancellations alone: rows are added for     *)
(* user 1, and cancel_appointment is called by either user and by the      *)
(* synchronization for the ids of the rows and for an id that no row has.  *)
(***************************************************************************)
NextCancelStore ==
    \/ \E b \in StoreBooks : StoreAdd(1, AppointmentData(b, "D2"), 1)
    \/ \E id \in {r.id : r \in appointments} \cup {next_id}, u \in UserIds,
          c \in CancelCalls :
          StoreCancel(id, u, c.cancelled_by, c.force)
    \/ Tick

SpecCancelStore == InitStore /\ [][NextCancelStore]_vars

\* the step just taken is a call of cancel_appointment
CancelCalled == last_op'.op = "cancel" /\ ops' = ops + 1

\* C39: cancel_appointment for an id that no row has, for a row of another
\* user, or for a row that is cancelled returns failure and leaves the
\* table as it is; no call of it, by the user or forced, changes
\* cancelled_at or cancelled_by of a row that is cancelled.
C39_CancelledStaysAsCancelled ==
    [][ CancelCalled
        => /\ ( \/ ~\E r \in appointments :
                      r.id = last_op'.id /\ r.user_id = last_op'.user_id
                \/ \E r \in appointments :
                      r.id = last_op'.id /\ r.status = "cancelled" )
              => /\ ~last_op'.success
                 /\ appointments' = appointments
           /\ \A r \in appointments :
                 r.status = "cancelled"
                 => \E r2 \in appointments' :
                       /\ r2.id = r.id
                       /\ r2.status = "cancelled"
                       /\ r2.cancelled_at = r.cancelled_at
                       /\ r2.cancelled_by = r.cancelled_by ]_vars

\* a forced cancel by the synchronization, an hour after the user
\* cancelled the row, has failed and the row shows the user's cancellation
C39_Witness ==
    /\ last_op.op = "cancel"
    /\ last_op.cancelled_by = "system_sync" /\ last_op.force
    /\ ~last_op.success
    /\ now = 1
    /\ \E r \in appointments :
          /\ r.id = last_op.id /\ r.user_id = last_op.user_id
          /\ r.status = "cancelled"
          /\ r.cancelled_at = Some(0)
          /\ r.cancelled_by = Some("user_cancel")

=============================================================================
